---- MODULE Spec2Model ----
(***************************************************************************)
(* Label resolution and metric aggregation of EuroEval / ScandEval.        *)
(*                                                                         *)
(* Python strings are modelled as sequences of one-character strings, so   *)
(* that lower-casing, prefix tests, splitting, stripping and the edit      *)
(* distance are computed character by character as the code computes them. *)
(***************************************************************************)
EXTENDS Integers, Sequences, FiniteSets, TLC

VARIABLES
    pc,                \* position of the running call ("idle" between calls)
    dataset_config,    \* the DatasetConfig argument of the running call
    num_samples,       \* len(generation_logprobs)
    sample_idx,        \* number of samples of generation_logprobs consumed
    sample_len,        \* len(sample) of the current example
    sample,            \* the logprob lists of the current example read so far
    step_idx,          \* number of logprob lists of `sample` consumed
    generated_labels,  \* cleaned, non-empty tokens of the current logprob list
    label_idx,         \* enumerate() index into generated_labels
    previously_generated_labels,
    output_label,      \* None or the label selected in the current step
    output_labels,     \* labels appended so far
    rerun_output_label,   \* output_label of a second call on the same arguments
    rerun_output_labels,  \* output_labels of a second call on the same arguments
    log,               \* diagnostics emitted for the current example, in order
    model_output,      \* the generation output of the batch being resolved
    generated_sequences,  \* argument of the edit-distance resolver
    raw_predictions,   \* result of _extract_raw_predictions
    seq_idx,           \* number of strings the edit-distance loop has consumed
    new_predicted_labels, \* labels the edit-distance loop has appended
    predicted_labels,  \* labels resolved for the batch by _generate_single_iteration
    all_preds,         \* predictions collected by _generate_single_iteration
    model_outputs,     \* compute_metrics: the model outputs, [dtype, data]
    labels,            \* compute_metrics: the true labels, [dtype, data]
    task_metrics,      \* compute_metrics: dataset_config.task.metrics
    predictions,       \* compute_metrics: the predictions, [dtype, data]
    label_ids,         \* compute_metrics: the references as label ids
    metric_idx,        \* compute_metrics: metric configurations consumed
    metric_calls,      \* compute_metrics: names of the metrics computed so far
    results,           \* compute_metrics: the result mapping
    exception,         \* the exception the running call raised, or "none"
    benchmark_batch_size, \* benchmark_config.batch_size
    batch_sizes,       \* _generate_single_iteration: the candidate batch sizes
    batch_size,        \* _generate_single_iteration: the loop variable
    dummy_outcomes,    \* outcomes of the dummy generations tried so far
    num_iterations,    \* _finetune: len(itr)
    evaluate_train,    \* benchmark_config.evaluate_train
    iteration_idx,     \* _finetune: idx, the iteration index
    bs,                \* _finetune: batch size of the next attempt
    ga,                \* _finetune: gradient accumulation of the next attempt
    model_already_initialized,
    iteration_args,    \* arguments of the running _finetune_single_iteration
    iteration_scores,  \* _finetune_single_iteration: its local `scores`
    itr_scores,        \* value _finetune_single_iteration returned
    finetune_scores,   \* _finetune: scores, the collected scores
    attempts           \* the calls of _finetune_single_iteration made so far

\* Locals of get_closest_logprobs_labels.
lpVars == <<num_samples, sample_idx, sample_len, sample, step_idx,
            generated_labels, label_idx, previously_generated_labels,
            output_label, output_labels, rerun_output_label,
            rerun_output_labels, log>>

\* Locals of the edit-distance resolvers and of _generate_single_iteration.
weVars == <<generated_sequences, raw_predictions, seq_idx,
            new_predicted_labels, predicted_labels, all_preds>>

\* Locals of compute_metrics.
cmVars == <<model_outputs, labels, task_metrics, predictions, label_ids,
            metric_idx, metric_calls, results, exception>>

\* Locals of the batch-size search of _generate_single_iteration.
bsVars == <<benchmark_batch_size, batch_sizes, batch_size, dummy_outcomes>>

\* Locals of _finetune and _finetune_single_iteration.
ftVars == <<num_iterations, evaluate_train, iteration_idx, bs, ga,
            model_already_initialized, iteration_args, iteration_scores,
            itr_scores, finetune_scores, attempts>>

vars == <<pc, dataset_config, model_output, lpVars, weVars, cmVars, bsVars, ftVars>>

----------------------------------------------------------------------------
(* Bounds of the explored inputs. *)

\* Examples per batch.
MaxBatch == 2

\* Generation steps per example.
MaxSteps == 2

\* Ranked tokens per generation step.
MaxRanks == 2

\* Token ids per generated sequence.
MaxSeqLen == 1

\* Ranked tokens of the step of a single-step example.
MaxTokens == 3

\* The configured batch size of a generative evaluation.
MaxBatchSize == 16

\* Iterations of a finetuning run.
MaxIterations == 2

\* Calls of _finetune_single_iteration within one finetuning run.
MaxAttempts == 3

----------------------------------------------------------------------------
(* Python values and string primitives. *)

None == <<"<None>">>

LowerCase ==
    <<"a","b","c","d","e","f","g","h","i","j","k","l","m","n","o","p","q",
      "r","s","t","u","v","w","x","y","z","æ","ø","å","ü","ö","ä">>

UpperCase ==
    <<"A","B","C","D","E","F","G","H","I","J","K","L","M","N","O","P","Q",
      "R","S","T","U","V","W","X","Y","Z","Æ","Ø","Å","Ü","Ö","Ä">>

\* The character class [a-zæøåüöä] of the cleaning pattern.
LabelAlphabet == {LowerCase[i] : i \in DOMAIN LowerCase}

\* The lower-case form of each upper-case letter.
LowerOf ==
    [c \in {UpperCase[i] : i \in DOMAIN UpperCase} |->
        LowerCase[CHOOSE i \in DOMAIN UpperCase : UpperCase[i] = c]]

lower_char(c) == IF c \in DOMAIN LowerOf THEN LowerOf[c] ELSE c

\* str.lower()
lower(s) == [i \in DOMAIN s |-> lower_char(s[i])]

\* str.startswith(prefix)
startswith(s, prefix) ==
    /\ Len(prefix) <= Len(s)
    /\ SubSeq(s, 1, Len(prefix)) = prefix

\* "".join(parts)
RECURSIVE join(_)
join(parts) == IF parts = <<>> THEN <<>> ELSE Head(parts) \o join(Tail(parts))

\* re.sub of ^[^a-zæøåüöä]+ : the leading run outside the alphabet is removed.
RECURSIVE strip_leading(_)
strip_leading(s) ==
    IF s = <<>> \/ Head(s) \in LabelAlphabet THEN s ELSE strip_leading(Tail(s))

\* re.sub of [^a-zæøåüöä]+$ : the trailing run outside the alphabet is removed.
RECURSIVE strip_trailing(_)
strip_trailing(s) ==
    IF s = <<>> \/ s[Len(s)] \in LabelAlphabet
    THEN s
    ELSE strip_trailing(SubSeq(s, 1, Len(s) - 1))

\* re.sub(pattern, "", label.lower())
clean_label(label) == strip_trailing(strip_leading(lower(label)))

\* drop_empty keeping every token, the empty ones included.
keep_all(xs) == xs

\* [x for x in xs if x != ""]
RECURSIVE drop_empty(_)
drop_empty(xs) ==
    IF xs = <<>> THEN <<>>
    ELSE IF Head(xs) = <<>> THEN drop_empty(Tail(xs))
    ELSE <<Head(xs)>> \o drop_empty(Tail(xs))

\* dict.get(key, key)
dict_get(d, key) == IF key \in DOMAIN d THEN d[key] ELSE key

\* seq[-1]
last(seq) == seq[Len(seq)]

\* str.split(sep) for a non-empty separator: the pieces between the
\* non-overlapping occurrences of sep, found from left to right.
RECURSIVE split_from(_, _, _)
split_from(s, sep, piece) ==
    IF s = <<>> THEN <<piece>>
    ELSE IF startswith(s, sep)
    THEN <<piece>> \o split_from(SubSeq(s, Len(sep) + 1, Len(s)), sep, <<>>)
    ELSE split_from(Tail(s), sep, Append(piece, Head(s)))

split(s, sep) == split_from(s, sep, <<>>)

\* The characters str.strip() removes.
Whitespace == {" ", "\n", "\t", "\r"}

RECURSIVE lstrip(_)
lstrip(s) == IF s = <<>> \/ Head(s) \notin Whitespace THEN s ELSE lstrip(Tail(s))

RECURSIVE rstrip(_)
rstrip(s) ==
    IF s = <<>> \/ s[Len(s)] \notin Whitespace
    THEN s
    ELSE rstrip(SubSeq(s, 1, Len(s) - 1))

\* str.strip()
strip(s) == rstrip(lstrip(s))

min2(a, b) == IF a <= b THEN a ELSE b

\* The row of the edit-distance table for one more character c of s1, from
\* the row `above`; row[k] is the distance to the first k - 1 characters of s2.
RECURSIVE levenshtein_row(_, _, _, _)
levenshtein_row(above, c, s2, row) ==
    IF Len(row) > Len(s2) THEN row
    ELSE LET j == Len(row)
             substitute == above[j] + (IF c = s2[j] THEN 0 ELSE 1)
             delete == above[j + 1] + 1
             insert == row[j] + 1
         IN  levenshtein_row(above, c, s2,
                             Append(row, min2(substitute, min2(delete, insert))))

RECURSIVE levenshtein_rows(_, _, _, _)
levenshtein_rows(s1, s2, i, above) ==
    IF i > Len(s1) THEN above
    ELSE levenshtein_rows(s1, s2, i + 1,
                          levenshtein_row(above, s1[i], s2, <<above[1] + 1>>))

\* Levenshtein.distance(s1, s2): insertions, deletions and substitutions
\* of single characters, each of weight one.
levenshtein_distance(s1, s2) ==
    last(levenshtein_rows(s1, s2, 1, [k \in 1..(Len(s2) + 1) |-> k - 1]))

\* argmin that keeps the last of several minimal entries.
RECURSIVE argmin_last_from(_, _, _)
argmin_last_from(xs, i, best) ==
    IF i > Len(xs) THEN best
    ELSE argmin_last_from(xs, i + 1, IF xs[i] <= xs[best] THEN i ELSE best)

argmin_last(xs) == argmin_last_from(xs, 2, 1)

RECURSIVE argmin_from(_, _, _)
argmin_from(xs, i, best) ==
    IF i > Len(xs) THEN best
    ELSE argmin_from(xs, i + 1, IF xs[i] < xs[best] THEN i ELSE best)

\* np.argmin(xs): the (1-based) position of the first minimal entry.
argmin(xs) == argmin_from(xs, 2, 1)

Range(f) == {f[x] : x \in DOMAIN f}

\* All sequences over S of length at most n.
BoundedSeq(S, n) == UNION {[1..k -> S] : k \in 0..n}

----------------------------------------------------------------------------
(* Dataset configurations and generated tokens the calls are explored on. *)

yes == <<"y","e","s">>
yellow == <<"y","e","l","l","o","w">>
negative == <<"n","e","g","a","t","i","v","e">>
neutral == <<"n","e","u","t","r","a","l">>
positive == <<"p","o","s","i","t","i","v","e">>
negativ == <<"n","e","g","a","t","i","v">>
noytral == <<"n","ø","y","t","r","a","l">>
positiv == <<"p","o","s","i","t","i","v">>
Negative == <<"N","e","g","a","t","i","v","e">>
Positive == <<"P","o","s","i","t","i","v","e">>
Negativ == <<"N","e","g","a","t","i","v">>
Positiv == <<"P","o","s","i","t","i","v">>

\* English dataset whose two labels share the prefix "ye".
YesYellowConfig ==
    [id2label |-> <<yellow, yes>>,
     prompt_label_mapping |-> (yellow :> yellow) @@ (yes :> yes),
     num_few_shot_examples |-> 0,
     prompt_instruction_infix |-> <<>>]

\* Danish sentiment dataset: two labels share the prefix "ne".
SentimentDaConfig ==
    [id2label |-> <<negative, neutral, positive>>,
     prompt_label_mapping |->
        (negative :> negativ) @@ (neutral :> neutral) @@ (positive :> positiv),
     num_few_shot_examples |-> 1,
     prompt_instruction_infix |-> <<>>]

\* Norwegian sentiment dataset, prompted with an instruction infix.
SentimentNbConfig ==
    [id2label |-> <<negative, neutral, positive>>,
     prompt_label_mapping |->
        (negative :> negativ) @@ (neutral :> noytral) @@ (positive :> positiv),
     num_few_shot_examples |-> 0,
     prompt_instruction_infix |-> <<"S","v","a","r">>]

\* Localized labels written with a capital letter.
CapitalisedConfig ==
    [id2label |-> <<negative, positive>>,
     prompt_label_mapping |-> (negative :> Negativ) @@ (positive :> Positiv),
     num_few_shot_examples |-> 1,
     prompt_instruction_infix |-> <<"S","v","a","r">>]

\* English labels written with a capital letter.
CapitalisedEnglishConfig ==
    [id2label |-> <<Negative, Positive>>,
     prompt_label_mapping |-> (Negative :> negativ) @@ (Positive :> positiv),
     num_few_shot_examples |-> 0,
     prompt_instruction_infix |-> <<>>]

\* Each configuration with the raw token texts the backend ranks for it and
\* the decoded strings it generates for it.
Scenarios ==
    { [dataset_config |-> YesYellowConfig,
       vocabulary |-> {<<"y","e">>, <<"s">>},
       texts |-> {<<"Y","E","S">>, <<"y","e","l","l","s">>}],
      [dataset_config |-> SentimentDaConfig,
       vocabulary |-> {<<"n">>, <<"e">>},
       texts |-> {<<"n","e">>, <<"P","o","s","i","t","i","v","!">>}],
      [dataset_config |-> SentimentNbConfig,
       vocabulary |-> {<<" ","P","o","s",".">>, <<"!">>},
       texts |-> {<<>>, <<"n","ø","y","t","r","a","l",".">>}],
      [dataset_config |-> CapitalisedConfig,
       vocabulary |-> {<<"p","o","s">>, positive},
       texts |-> {<<"P","O","S","I","T","I","V">>, negativ}],
      [dataset_config |-> CapitalisedEnglishConfig,
       vocabulary |-> {Positive, <<".","n","-","e"," ">>},
       texts |-> {positive, <<"N","E","G">>}] }

DatasetConfigs == {sc.dataset_config : sc \in Scenarios}

Vocabulary(cfg) ==
    (CHOOSE sc \in Scenarios : sc.dataset_config = cfg).vocabulary

Texts(cfg) ==
    (CHOOSE sc \in Scenarios : sc.dataset_config = cfg).texts

\* The tokenizer of the generative model: its special token ids and the
\* text each id is decoded to.
Tokenizer ==
    [bos_token_id |-> 1,
     eos_token_id |-> 2,
     text |-> (1 :> <<"<","s",">">>) @@ (2 :> <<"<","/","s",">">>)
              @@ (3 :> <<"\n","\n">>)
              @@ (4 :> <<"\n","\n","Q","\n","A",":","Y","e"," ">>)]

\* Token ids that occur in generated sequences.
GeneratedTokenIds == {2, 3, 4}

\* One generation step: up to MaxRanks ranked token texts, best first.
LogprobLists(cfg) == BoundedSeq(Vocabulary(cfg), MaxRanks)

----------------------------------------------------------------------------
(* get_closest_logprobs_labels *)

english_labels(cfg) == cfg.id2label

english2local(cfg) == cfg.prompt_label_mapping

local_labels(cfg) ==
    [i \in DOMAIN english_labels(cfg) |->
        lower(english2local(cfg)[english_labels(cfg)[i]])]

candidate_labels(cfg) == local_labels(cfg) \o english_labels(cfg)

\* The cleaned, non-empty tokens of one logprob list, in rank order.
clean_generated_labels(logprob_list) ==
    drop_empty([i \in DOMAIN logprob_list |-> clean_label(logprob_list[i])])

\* "".join(previously_generated_labels) + generated_label
probe_of(previous, generated_label) == join(previous) \o generated_label

\* The set comprehension candidate_output_labels.
candidate_output_labels(cfg, probe) ==
    LET candidates == candidate_labels(cfg)
    IN  {dict_get(english2local(cfg), candidates[i]) :
            i \in {j \in DOMAIN candidates : startswith(candidates[j], probe)}}

\* set.pop(): an arbitrary element of the set.
set_pop(s) == s

CurrentProbe == probe_of(previously_generated_labels, generated_labels[label_idx + 1])

CurrentCandidates == candidate_output_labels(dataset_config, CurrentProbe)

\* extract_labels_from_generation is called with the output of one batch:
\* log-probabilities of num examples (read one example at a time by the
\* resolver), or none and the decoded strings.
CallExtractLabels ==
    /\ pc = "idle"
    /\ \E cfg \in DatasetConfigs :
        /\ dataset_config' = cfg
        /\ \/ \E n \in 0..MaxBatch :
                model_output' = [scores |-> [i \in 1..n |-> "sample"],
                                 sequences |-> <<>>]
           \/ \E seqs \in BoundedSeq(Texts(cfg), MaxBatch) :
                model_output' = [scores |-> None, sequences |-> seqs]
    /\ pc' = "el_dispatch"
    /\ UNCHANGED cmVars
    /\ UNCHANGED <<lpVars, weVars>>
    /\ UNCHANGED <<bsVars, ftVars>>

\* model_output.scores is not None: get_closest_logprobs_labels is called.
DispatchLogprobs ==
    /\ pc = "el_dispatch"
    /\ model_output.scores # None
    /\ num_samples' = Len(model_output.scores)
    /\ sample_idx' = 0
    /\ output_labels' = <<>>
    /\ rerun_output_labels' = <<>>
    /\ pc' = "lp_sample"
    /\ UNCHANGED cmVars
    /\ UNCHANGED <<dataset_config, model_output, weVars, sample_len, sample,
                   step_idx, generated_labels, label_idx,
                   previously_generated_labels, output_label,
                   rerun_output_label, log>>
    /\ UNCHANGED <<bsVars, ftVars>>

\* DispatchWordEdit taken whether or not scores were reported.
DispatchWordEditAlways ==
    /\ pc = "el_dispatch"
    /\ generated_sequences' = model_output.sequences
    /\ seq_idx' = 0
    /\ new_predicted_labels' = <<>>
    /\ pc' = "we_loop"
    /\ UNCHANGED cmVars
    /\ UNCHANGED <<dataset_config, model_output, lpVars, raw_predictions,
                   predicted_labels, all_preds>>
    /\ UNCHANGED <<bsVars, ftVars>>

\* model_output.scores is None: get_closest_word_edit_labels is called.
DispatchWordEdit ==
    /\ pc = "el_dispatch"
    /\ model_output.scores = None
    /\ generated_sequences' = model_output.sequences
    /\ seq_idx' = 0
    /\ new_predicted_labels' = <<>>
    /\ pc' = "we_loop"
    /\ UNCHANGED cmVars
    /\ UNCHANGED <<dataset_config, model_output, lpVars, raw_predictions,
                   predicted_labels, all_preds>>
    /\ UNCHANGED <<bsVars, ftVars>>

\* for sample in generation_logprobs: the next sample is read.
NextSample ==
    /\ pc = "lp_sample"
    /\ sample_idx < num_samples
    /\ sample_len' \in 0..MaxSteps
    /\ sample' = <<>>
    /\ step_idx' = 0
    /\ log' = <<>>
    /\ pc' = "lp_step"
    /\ UNCHANGED <<model_output, weVars, cmVars>>
    /\ UNCHANGED <<dataset_config, num_samples, sample_idx, generated_labels,
                   label_idx, previously_generated_labels, output_label,
                   output_labels, rerun_output_label, rerun_output_labels>>
    /\ UNCHANGED <<bsVars, ftVars>>

\* BeginStep without the reset of output_label and of the stored prefix.
BeginStepWithoutReset ==
    /\ pc = "lp_step"
    /\ step_idx < sample_len
    /\ \E logprob_list \in LogprobLists(dataset_config) :
        /\ sample' = Append(sample, logprob_list)
        /\ generated_labels' = clean_generated_labels(logprob_list)
    /\ label_idx' = 0
    /\ pc' = "lp_token"
    /\ UNCHANGED <<model_output, weVars, cmVars>>
    /\ UNCHANGED <<dataset_config, num_samples, sample_idx, sample_len,
                   step_idx, output_labels, rerun_output_labels, log,
                   output_label, rerun_output_label, previously_generated_labels>>
    /\ UNCHANGED <<bsVars, ftVars>>

\* for logprob_list in sample: the tokens are cleaned, the step state is reset.
BeginStep ==
    /\ pc = "lp_step"
    /\ step_idx < sample_len
    /\ \E logprob_list \in LogprobLists(dataset_config) :
        /\ sample' = Append(sample, logprob_list)
        /\ generated_labels' = clean_generated_labels(logprob_list)
    /\ output_label' = None
    /\ rerun_output_label' = None
    /\ previously_generated_labels' = <<>>
    /\ label_idx' = 0
    /\ pc' = "lp_token"
    /\ UNCHANGED <<model_output, weVars, cmVars>>
    /\ UNCHANGED <<dataset_config, num_samples, sample_idx, sample_len,
                   step_idx, output_labels, rerun_output_labels, log>>
    /\ UNCHANGED <<bsVars, ftVars>>

\* TokenUnique selecting the first candidate whatever the probe matched.
TokenUniqueSelectsFirstCandidate ==
    /\ pc = "lp_token"
    /\ label_idx < Len(generated_labels)
    /\ Cardinality(CurrentCandidates) = 1
    /\ output_label' = candidate_labels(dataset_config)[1]
    /\ rerun_output_label' = candidate_labels(dataset_config)[1]
    /\ pc' = "lp_step_end"
    /\ UNCHANGED <<model_output, weVars, cmVars>>
    /\ UNCHANGED <<dataset_config, num_samples, sample_idx, sample_len, sample, step_idx,
                   generated_labels, label_idx, previously_generated_labels,
                   output_labels, rerun_output_labels, log>>
    /\ UNCHANGED <<bsVars, ftVars>>

\* get_closest_logprobs_labels is called with one example of one generation
\* step: lines 163-184 run up to the loop over the cleaned tokens of the step.
CallWithSingleStep ==
    /\ pc = "idle"
    /\ \E cfg \in DatasetConfigs :
        /\ dataset_config' = cfg
        /\ \E logprob_list \in BoundedSeq(Vocabulary(cfg), MaxTokens) :
            /\ sample' = <<logprob_list>>
            /\ generated_labels' = clean_generated_labels(logprob_list)
    /\ model_output' = [scores |-> <<"sample">>, sequences |-> <<>>]
    /\ num_samples' = 1
    /\ sample_idx' = 0
    /\ sample_len' = 1
    /\ step_idx' = 0
    /\ output_labels' = <<>>
    /\ rerun_output_labels' = <<>>
    /\ log' = <<>>
    /\ output_label' = None
    /\ rerun_output_label' = None
    /\ previously_generated_labels' = <<>>
    /\ label_idx' = 0
    /\ pc' = "lp_token"
    /\ UNCHANGED <<weVars, cmVars>>
    /\ UNCHANGED <<bsVars, ftVars>>

\* len(candidate_output_labels) == 1: the label is selected, the loop is left.
TokenUnique ==
    /\ pc = "lp_token"
    /\ label_idx < Len(generated_labels)
    /\ Cardinality(CurrentCandidates) = 1
    /\ output_label' \in set_pop(CurrentCandidates)
    /\ rerun_output_label' \in set_pop(CurrentCandidates)
    /\ pc' = "lp_step_end"
    /\ UNCHANGED <<model_output, weVars, cmVars>>
    /\ UNCHANGED <<dataset_config, num_samples, sample_idx, sample_len, sample, step_idx,
                   generated_labels, label_idx, previously_generated_labels,
                   output_labels, rerun_output_labels, log>>
    /\ UNCHANGED <<bsVars, ftVars>>

\* Several candidates and label_idx == 0: the probe is stored.
TokenAmbiguousFirst ==
    /\ pc = "lp_token"
    /\ label_idx < Len(generated_labels)
    /\ Cardinality(CurrentCandidates) > 1
    /\ label_idx = 0
    /\ previously_generated_labels' =
          Append(previously_generated_labels, CurrentProbe)
    /\ label_idx' = label_idx + 1
    /\ UNCHANGED <<model_output, weVars, cmVars>>
    /\ UNCHANGED <<pc, dataset_config, num_samples, sample_idx, sample_len, sample,
                   step_idx, generated_labels, output_label, output_labels,
                   rerun_output_label, rerun_output_labels, log>>
    /\ UNCHANGED <<bsVars, ftVars>>

\* Several candidates and label_idx > 0: one is popped, a warning is logged,
\* and the loop goes on with the next token.
TokenAmbiguousLater ==
    /\ pc = "lp_token"
    /\ label_idx < Len(generated_labels)
    /\ Cardinality(CurrentCandidates) > 1
    /\ label_idx # 0
    /\ output_label' \in set_pop(CurrentCandidates)
    /\ rerun_output_label' \in set_pop(CurrentCandidates)
    /\ log' = Append(log, "warning_multiple_candidates")
    /\ label_idx' = label_idx + 1
    /\ UNCHANGED <<model_output, weVars, cmVars>>
    /\ UNCHANGED <<pc, dataset_config, num_samples, sample_idx, sample_len, sample,
                   step_idx, generated_labels, previously_generated_labels,
                   output_labels, rerun_output_labels>>
    /\ UNCHANGED <<bsVars, ftVars>>

\* TokenNoMatch leaving the token loop instead of trying the next token.
TokenNoMatchEndsStep ==
    /\ pc = "lp_token"
    /\ label_idx < Len(generated_labels)
    /\ Cardinality(CurrentCandidates) = 0
    /\ pc' = "lp_step_end"
    /\ UNCHANGED <<model_output, weVars, cmVars>>
    /\ UNCHANGED <<dataset_config, num_samples, sample_idx, sample_len, sample,
                   step_idx, generated_labels, label_idx, previously_generated_labels,
                   output_label, output_labels, rerun_output_label,
                   rerun_output_labels, log>>
    /\ UNCHANGED <<bsVars, ftVars>>

\* No candidate starts with the probe: the next token of the list is tried.
TokenNoMatch ==
    /\ pc = "lp_token"
    /\ label_idx < Len(generated_labels)
    /\ Cardinality(CurrentCandidates) = 0
    /\ label_idx' = label_idx + 1
    /\ UNCHANGED <<model_output, weVars, cmVars>>
    /\ UNCHANGED <<pc, dataset_config, num_samples, sample_idx, sample_len, sample,
                   step_idx, generated_labels, previously_generated_labels,
                   output_label, output_labels, rerun_output_label,
                   rerun_output_labels, log>>
    /\ UNCHANGED <<bsVars, ftVars>>

\* generated_labels is exhausted without a break.
TokensExhausted ==
    /\ pc = "lp_token"
    /\ label_idx >= Len(generated_labels)
    /\ pc' = "lp_step_end"
    /\ UNCHANGED <<model_output, weVars, cmVars>>
    /\ UNCHANGED <<dataset_config, num_samples, sample_idx, sample_len, sample, step_idx,
                   generated_labels, label_idx, previously_generated_labels,
                   output_label, output_labels, rerun_output_label,
                   rerun_output_labels, log>>
    /\ UNCHANGED <<bsVars, ftVars>>

\* AppendOutputLabel without the break that leaves the sample.
AppendOutputLabelNoBreak ==
    /\ pc = "lp_step_end"
    /\ output_label # None
    /\ output_labels' =
          Append(output_labels, dict_get(english2local(dataset_config), output_label))
    /\ rerun_output_labels' =
          Append(rerun_output_labels,
                 dict_get(english2local(dataset_config), rerun_output_label))
    /\ step_idx' = step_idx + 1
    /\ pc' = "lp_step"
    /\ UNCHANGED <<model_output, weVars, cmVars>>
    /\ UNCHANGED <<dataset_config, num_samples, sample_idx, sample_len, sample,
                   generated_labels, label_idx, previously_generated_labels,
                   output_label, rerun_output_label, log>>
    /\ UNCHANGED <<bsVars, ftVars>>

\* output_label is not None: it is mapped, appended, and the sample is left.
AppendOutputLabel ==
    /\ pc = "lp_step_end"
    /\ output_label # None
    /\ output_labels' =
          Append(output_labels, dict_get(english2local(dataset_config), output_label))
    /\ rerun_output_labels' =
          Append(rerun_output_labels,
                 dict_get(english2local(dataset_config), rerun_output_label))
    /\ sample_idx' = sample_idx + 1
    /\ pc' = "lp_sample"
    /\ UNCHANGED <<model_output, weVars, cmVars>>
    /\ UNCHANGED <<dataset_config, num_samples, sample_len, sample, step_idx,
                   generated_labels, label_idx, previously_generated_labels,
                   output_label, rerun_output_label, log>>
    /\ UNCHANGED <<bsVars, ftVars>>

\* output_label is None: the next logprob list of the sample is examined.
NextStep ==
    /\ pc = "lp_step_end"
    /\ output_label = None
    /\ step_idx' = step_idx + 1
    /\ pc' = "lp_step"
    /\ UNCHANGED <<model_output, weVars, cmVars>>
    /\ UNCHANGED <<dataset_config, num_samples, sample_idx, sample_len, sample,
                   generated_labels, label_idx, previously_generated_labels,
                   output_label, output_labels, rerun_output_label,
                   rerun_output_labels, log>>
    /\ UNCHANGED <<bsVars, ftVars>>

\* fallback_diagnostic without the test of len(sample).
fallback_diagnostic_no_candidate(len_sample) == "debug_no_candidate_label"

\* The diagnostic of the for-else clause.
fallback_diagnostic(len_sample) ==
    IF len_sample = 0 THEN "debug_empty_output" ELSE "debug_no_candidate_label"

\* fallback_label taking the last candidate instead of the first.
fallback_label_last(cfg) == candidate_labels(cfg)[Len(candidate_labels(cfg))]

\* The label appended by the for-else clause.
fallback_label(cfg) == candidate_labels(cfg)[1]

\* for-else: no step selected a label; the first candidate is appended.
Fallback ==
    /\ pc = "lp_step"
    /\ step_idx >= sample_len
    /\ log' = Append(log, fallback_diagnostic(sample_len))
    /\ output_labels' = Append(output_labels, fallback_label(dataset_config))
    /\ rerun_output_labels' =
          Append(rerun_output_labels, fallback_label(dataset_config))
    /\ sample_idx' = sample_idx + 1
    /\ pc' = "lp_sample"
    /\ UNCHANGED <<model_output, weVars, cmVars>>
    /\ UNCHANGED <<dataset_config, num_samples, sample_len, sample, step_idx,
                   generated_labels, label_idx, previously_generated_labels,
                   output_label, rerun_output_label>>
    /\ UNCHANGED <<bsVars, ftVars>>

\* The samples are exhausted: the final assert is evaluated, the list returned.
ReturnLabels ==
    /\ pc = "lp_sample"
    /\ sample_idx >= num_samples
    /\ pc' = IF Len(output_labels) = num_samples THEN "lp_returned" ELSE "lp_raised"
    /\ UNCHANGED <<model_output, weVars, cmVars>>
    /\ UNCHANGED <<dataset_config, num_samples, sample_idx, sample_len, sample, step_idx,
                   generated_labels, label_idx, previously_generated_labels,
                   output_label, output_labels, rerun_output_label,
                   rerun_output_labels, log>>
    /\ UNCHANGED <<bsVars, ftVars>>

----------------------------------------------------------------------------
(* get_closest_word_edit_labels *)

\* candidate_labels of get_closest_word_edit_labels: the localized labels in
\* id2label order.
word_edit_candidate_labels(cfg) ==
    [i \in DOMAIN cfg.id2label |-> cfg.prompt_label_mapping[cfg.id2label[i]]]

\* edit_distances: from the lower-cased string to each lower-cased candidate.
edit_distances(predicted_label, candidates) ==
    [i \in DOMAIN candidates |->
        levenshtein_distance(lower(predicted_label), lower(candidates[i]))]

\* closest_label: candidates[np.argmin(edit_distances).item()]
closest_label(predicted_label, candidates) ==
    candidates[argmin(edit_distances(predicted_label, candidates))]

\* One iteration of `for predicted_label in generated_sequences`.
WordEditStep ==
    /\ pc = "we_loop"
    /\ seq_idx < Len(generated_sequences)
    /\ new_predicted_labels' =
          Append(new_predicted_labels,
                 closest_label(generated_sequences[seq_idx + 1],
                               word_edit_candidate_labels(dataset_config)))
    /\ seq_idx' = seq_idx + 1
    /\ UNCHANGED cmVars
    /\ UNCHANGED <<pc, dataset_config, model_output, lpVars,
                   generated_sequences, raw_predictions, predicted_labels,
                   all_preds>>
    /\ UNCHANGED <<bsVars, ftVars>>

\* The strings are exhausted: new_predicted_labels is returned.
WordEditReturn ==
    /\ pc = "we_loop"
    /\ seq_idx >= Len(generated_sequences)
    /\ pc' = "we_returned"
    /\ UNCHANGED cmVars
    /\ UNCHANGED <<dataset_config, model_output, lpVars, weVars>>
    /\ UNCHANGED <<bsVars, ftVars>>

----------------------------------------------------------------------------
(* BenchmarkDataset._generate_single_iteration: the resolution of one batch. *)

\* Token ids the tokenizer gives the first token of a label.
LabelTokenIds == {5, 6, 7}

\* tokenizer([label], add_special_tokens=False)["input_ids"][0][0]: labels
\* with the same first letter share their first token.
first_token_id(label) ==
    IF label[1] = "n" THEN 5 ELSE IF label[1] = "p" THEN 6 ELSE 7

\* The log-probabilities the model can give a token, as ranks.
LogprobLevels == {1, 2}

\* all_logprobs[:, 0, :] of one example, restricted to the label tokens.
FirstStepLogprobs == [LabelTokenIds -> LogprobLevels]

\* Tensor.argmax keeping the last of several maximal entries.
RECURSIVE argmax_last_from(_, _, _)
argmax_last_from(xs, i, best) ==
    IF i > Len(xs) THEN best
    ELSE argmax_last_from(xs, i + 1, IF xs[i] >= xs[best] THEN i ELSE best)

argmax_last(xs) == argmax_last_from(xs, 2, 1)

RECURSIVE argmax_from(_, _, _)
argmax_from(xs, i, best) ==
    IF i > Len(xs) THEN best
    ELSE argmax_from(xs, i + 1, IF xs[i] > xs[best] THEN i ELSE best)

\* Tensor.argmax(dim=1) of one row: the position of the first maximal entry.
argmax(xs) == argmax_from(xs, 2, 1)

\* candidate_labels of BenchmarkDataset._get_closest_logprobs_labels.
scandeval_logprobs_candidate_labels(cfg) ==
    [i \in DOMAIN cfg.id2label |-> cfg.prompt_label_mapping[cfg.id2label[i]]]

\* BenchmarkDataset._get_closest_logprobs_labels: for every example the
\* candidate whose first token has the highest first-step log-probability.
scandeval_get_closest_logprobs_labels(scores, cfg) ==
    LET candidates == scandeval_logprobs_candidate_labels(cfg)
        pred_logprobs(row) ==
            [i \in DOMAIN candidates |-> row[first_token_id(lower(candidates[i]))]]
    IN  [b \in DOMAIN scores |-> candidates[argmax(pred_logprobs(scores[b]))]]

\* The token ids of one generated sequence without the bos and eos ids.
RECURSIVE completion_ids(_)
completion_ids(ids) ==
    IF ids = <<>> THEN <<>>
    ELSE IF Head(ids) \in {Tokenizer.bos_token_id, Tokenizer.eos_token_id}
    THEN completion_ids(Tail(ids))
    ELSE <<Head(ids)>> \o completion_ids(Tail(ids))

\* tokenizer.decode(ids): the texts of the ids, concatenated.
decode(ids) == join([i \in DOMAIN ids |-> Tokenizer.text[ids[i]]])

\* pred_idx of _extract_raw_predictions.
pred_idx(cfg) ==
    cfg.num_few_shot_examples + 1
        + (IF cfg.prompt_instruction_infix # <<>> THEN 1 ELSE 0)

paragraph_separator == <<"\n","\n">>

\* text.split("\n\n")[idx] raises IndexError.
raises_index_error(text, idx) == Len(split(text, paragraph_separator)) <= idx

\* text.split("\n\n")[idx].split("\n")[-1].split(":")[-1].strip()
answer_span(text, idx) ==
    strip(last(split(last(split(split(text, paragraph_separator)[idx + 1],
                                 <<"\n">>)),
                     <<":">>)))

\* extract_raw_predictions whose except block does not strip the text.
extract_raw_predictions_unstripped(sequences, cfg) ==
    LET texts == [i \in DOMAIN sequences |-> decode(completion_ids(sequences[i]))]
    IN  IF \E i \in DOMAIN texts : raises_index_error(texts[i], pred_idx(cfg))
        THEN texts
        ELSE [i \in DOMAIN texts |-> answer_span(texts[i], pred_idx(cfg))]

\* BenchmarkDataset._extract_raw_predictions: the list comprehension of the
\* try block, or, when it raises IndexError for some sequence, the list
\* comprehension of the except block.
extract_raw_predictions(sequences, cfg) ==
    LET texts == [i \in DOMAIN sequences |-> decode(completion_ids(sequences[i]))]
    IN  IF \E i \in DOMAIN texts : raises_index_error(texts[i], pred_idx(cfg))
        THEN [i \in DOMAIN texts |-> strip(texts[i])]
        ELSE [i \in DOMAIN texts |-> answer_span(texts[i], pred_idx(cfg))]

\* candidate_labels of BenchmarkDataset._get_closest_word_edit_labels.
scandeval_word_edit_candidate_labels(cfg) == cfg.id2label

\* model.generate returns the output of one batch: with the first-step
\* log-probabilities of every example under "scores", or without that key.
\* The sequences are read on the second branch only and are left empty on
\* the first.
GenerateBatch ==
    /\ pc = "idle"
    /\ \E cfg \in DatasetConfigs :
        /\ dataset_config' = cfg
        /\ \E seqs \in BoundedSeq(BoundedSeq(GeneratedTokenIds, MaxSeqLen), MaxBatch) :
            \/ model_output' = [sequences |-> seqs]
            \/ /\ seqs = <<>>
               /\ \E scores \in BoundedSeq(FirstStepLogprobs, MaxBatch) :
                    model_output' = [sequences |-> <<>>, scores |-> scores]
    /\ all_preds' = <<>>
    /\ pc' = "gen_dispatch"
    /\ UNCHANGED cmVars
    /\ UNCHANGED <<lpVars, generated_sequences, raw_predictions, seq_idx,
                   new_predicted_labels, predicted_labels>>
    /\ UNCHANGED <<bsVars, ftVars>>

\* "scores" in model_output: self._get_closest_logprobs_labels is called.
GenDispatchLogprobs ==
    /\ pc = "gen_dispatch"
    /\ "scores" \in DOMAIN model_output
    /\ predicted_labels' =
          scandeval_get_closest_logprobs_labels(model_output.scores, dataset_config)
    /\ pc' = "gen_extend"
    /\ UNCHANGED cmVars
    /\ UNCHANGED <<dataset_config, model_output, lpVars, generated_sequences,
                   raw_predictions, seq_idx, new_predicted_labels, all_preds>>
    /\ UNCHANGED <<bsVars, ftVars>>

\* "scores" not in model_output: self._get_closest_word_edit_labels is called.
GenDispatchWordEdit ==
    /\ pc = "gen_dispatch"
    /\ "scores" \notin DOMAIN model_output
    /\ generated_sequences' = model_output.sequences
    /\ pc' = "swe_extract"
    /\ UNCHANGED cmVars
    /\ UNCHANGED <<dataset_config, model_output, lpVars, raw_predictions,
                   seq_idx, new_predicted_labels, predicted_labels, all_preds>>
    /\ UNCHANGED <<bsVars, ftVars>>

\* raw_predictions = self._extract_raw_predictions(...)
ExtractRawPredictions ==
    /\ pc = "swe_extract"
    /\ raw_predictions' = extract_raw_predictions(generated_sequences, dataset_config)
    /\ seq_idx' = 0
    /\ new_predicted_labels' = <<>>
    /\ pc' = "swe_loop"
    /\ UNCHANGED cmVars
    /\ UNCHANGED <<dataset_config, model_output, lpVars, generated_sequences,
                   predicted_labels, all_preds>>
    /\ UNCHANGED <<bsVars, ftVars>>

\* One iteration of `for predicted_label in raw_predictions`.
ScandevalWordEditStep ==
    /\ pc = "swe_loop"
    /\ seq_idx < Len(raw_predictions)
    /\ new_predicted_labels' =
          Append(new_predicted_labels,
                 closest_label(raw_predictions[seq_idx + 1],
                               scandeval_word_edit_candidate_labels(dataset_config)))
    /\ seq_idx' = seq_idx + 1
    /\ UNCHANGED cmVars
    /\ UNCHANGED <<pc, dataset_config, model_output, lpVars,
                   generated_sequences, raw_predictions, predicted_labels,
                   all_preds>>
    /\ UNCHANGED <<bsVars, ftVars>>

\* The raw predictions are exhausted: new_predicted_labels is returned and
\* becomes predicted_labels.
ScandevalWordEditReturn ==
    /\ pc = "swe_loop"
    /\ seq_idx >= Len(raw_predictions)
    /\ predicted_labels' = new_predicted_labels
    /\ pc' = "gen_extend"
    /\ UNCHANGED cmVars
    /\ UNCHANGED <<dataset_config, model_output, lpVars, generated_sequences,
                   raw_predictions, seq_idx, new_predicted_labels, all_preds>>
    /\ UNCHANGED <<bsVars, ftVars>>

\* all_preds.extend(predicted_labels)
ExtendAllPreds ==
    /\ pc = "gen_extend"
    /\ all_preds' = all_preds \o predicted_labels
    /\ pc' = "gen_done"
    /\ UNCHANGED cmVars
    /\ UNCHANGED <<dataset_config, model_output, lpVars, generated_sequences,
                   raw_predictions, seq_idx, new_predicted_labels,
                   predicted_labels>>
    /\ UNCHANGED <<bsVars, ftVars>>

----------------------------------------------------------------------------
(* compute_metrics *)

\* An array that holds nothing (a local not yet assigned).
NoArray == [dtype |-> "none", data |-> <<>>]

\* Floating-point values of a class score; "nan" is not-a-number.
FloatValues == {"0.2", "0.8", "nan"}

\* The order of the floating-point values as ndarray.argmax sees it: a NaN
\* counts as maximal.
FloatRank == ("0.2" :> 1) @@ ("0.8" :> 2) @@ ("nan" :> 3)

\* The class-score vectors a model can output for one example.
ScoreRows(cfg) ==
    IF Len(cfg.id2label) = 2
    THEN [1..2 -> FloatValues]
    ELSE {<<"0.2", "0.8", "0.8">>, <<"0.8", "0.2", "0.2">>, <<"nan", "0.2", "0.8">>}

\* Metric configurations of a task: name, huggingface_id, results_key.
MccMetric ==
    [name |-> "mcc", huggingface_id |-> "matthews_correlation",
     results_key |-> "matthews_correlation"]

MacroF1Metric ==
    [name |-> "macro_f1", huggingface_id |-> "f1", results_key |-> "f1"]

\* A metric without a huggingface_id is not loaded (its entry is None).
UnloadedMetric ==
    [name |-> "custom", huggingface_id |-> "", results_key |-> "custom"]

TaskMetricLists ==
    {<<>>, <<MccMetric>>, <<MccMetric, MacroF1Metric>>,
     <<MccMetric, UnloadedMetric>>}

\* What EvaluationModule.compute can return: None, or a dictionary whose
\* value under the results key is a score or a list of per-class scores
\* (scores in percent).
MetricOutcomes ==
    { [kind |-> "none", scores |-> <<>>],
      [kind |-> "float", scores |-> <<50>>],
      [kind |-> "list", scores |-> <<20, 80>>],
      [kind |-> "list", scores |-> <<0, 25>>] }

\* The model outputs compute_metrics can be given for a configuration:
\* class-score vectors, label strings, or label ids.
ModelOutputs(cfg) ==
    {[dtype |-> "float", data |-> d] : d \in BoundedSeq(ScoreRows(cfg), MaxBatch)}
    \cup {[dtype |-> "str", data |-> d] :
            d \in BoundedSeq(Range(cfg.prompt_label_mapping), MaxBatch)}
    \cup {[dtype |-> "int", data |-> d] :
            d \in BoundedSeq(0..(Len(cfg.id2label) - 1), MaxBatch)}

\* The true labels given with n model outputs: for every example the first
\* English label, the localized label of the last class, or the id of the
\* last class.
LabelArrays(cfg, n) ==
    { [dtype |-> "str", data |-> [i \in 1..n |-> cfg.id2label[1]]],
      [dtype |-> "str",
       data |-> [i \in 1..n |->
                    cfg.prompt_label_mapping[cfg.id2label[Len(cfg.id2label)]]]],
      [dtype |-> "int", data |-> [i \in 1..n |-> Len(cfg.id2label) - 1]] }

\* label2id = {label: idx for idx, label in id2label.items()}
label2id(cfg) ==
    [l \in Range(cfg.id2label) |->
        (CHOOSE i \in DOMAIN cfg.id2label :
            /\ cfg.id2label[i] = l
            /\ \A j \in DOMAIN cfg.id2label : cfg.id2label[j] = l => j <= i) - 1]

\* The dictionary comprehension {prompt_label: label for label, prompt_label
\* in mapping.items()} over the items from position i on: a later item
\* replaces an earlier one with the same prompt label.
RECURSIVE inverted_items(_, _, _, _)
inverted_items(mapping, keys, i, acc) ==
    IF i > Len(keys) THEN acc
    ELSE inverted_items(mapping, keys, i + 1,
                        (mapping[keys[i]] :> keys[i]) @@ acc)

\* prompt_label_to_label_mapping with every prompt label mapped to itself.
prompt_label_to_label_mapping_identity(cfg) ==
    [pl \in Range(cfg.prompt_label_mapping) |-> pl]

\* prompt_label_to_label_mapping: prompt label -> label.
prompt_label_to_label_mapping(cfg) ==
    inverted_items(cfg.prompt_label_mapping, cfg.id2label, 1, <<>>)

\* np.asarray(model_outputs).argmax(axis=-1) of one row, as a 0-based index.
argmax_row(row) == argmax([i \in DOMAIN row |-> FloatRank[row[i]]]) - 1

\* raise_if_model_output_contains_nan_values raises: some numeric value of
\* the model output is not-a-number.
contains_nan_values(outputs) ==
    /\ outputs.dtype = "float"
    /\ \E i \in DOMAIN outputs.data :
          \E j \in DOMAIN outputs.data[i] : outputs.data[i][j] = "nan"

\* Lines 45-68: the arguments are unpacked (a pair of model outputs is
\* reduced to its first element), the metrics are loaded and the predictions
\* are taken from the model outputs.
CallComputeMetrics ==
    /\ pc = "idle"
    /\ \E cfg \in DatasetConfigs :
        /\ dataset_config' = cfg
        /\ \E outputs \in ModelOutputs(cfg) :
            /\ model_outputs' = outputs
            /\ labels' \in LabelArrays(cfg, Len(outputs.data))
            /\ predictions' =
                  IF outputs.dtype = "float"
                  THEN [dtype |-> "int",
                        data |-> [i \in DOMAIN outputs.data |->
                                     argmax_row(outputs.data[i])]]
                  ELSE outputs
    /\ task_metrics' \in TaskMetricLists
    /\ label_ids' = <<>>
    /\ metric_idx' = 0
    /\ metric_calls' = <<>>
    /\ results' = <<>>
    /\ exception' = "none"
    /\ pc' = "cm_nan_check"
    /\ UNCHANGED <<model_output, lpVars, weVars>>
    /\ UNCHANGED <<bsVars, ftVars>>

\* Line 71: raise_if_model_output_contains_nan_values raises.
RaiseNaN ==
    /\ pc = "cm_nan_check"
    /\ contains_nan_values(model_outputs)
    /\ exception' = "NaNValueInModelOutput"
    /\ pc' = "cm_raised"
    /\ UNCHANGED <<dataset_config, model_output, lpVars, weVars, model_outputs,
                   labels, task_metrics, predictions, label_ids, metric_idx,
                   metric_calls, results>>
    /\ UNCHANGED <<bsVars, ftVars>>

\* prediction_id without the lower-casing of the prediction.
prediction_id_case_sensitive(cfg, pred) ==
    IF pred \in DOMAIN prompt_label_to_label_mapping(cfg)
    THEN label2id(cfg)[prompt_label_to_label_mapping(cfg)[pred]]
    ELSE -1

\* The id of a string prediction; -1 when a dictionary lookup fails.
prediction_id(cfg, pred) ==
    IF lower(pred) \in DOMAIN prompt_label_to_label_mapping(cfg)
    THEN label2id(cfg)[prompt_label_to_label_mapping(cfg)[lower(pred)]]
    ELSE -1

\* The id of a string reference; -1 when the dictionary lookup fails.
reference_id(cfg, label) ==
    IF lower(label) \in DOMAIN label2id(cfg)
    THEN label2id(cfg)[lower(label)]
    ELSE -1

normalised_predictions(cfg, preds) ==
    IF preds.dtype = "str"
    THEN [i \in DOMAIN preds.data |-> prediction_id(cfg, preds.data[i])]
    ELSE preds.data

normalised_labels(cfg, refs) ==
    IF refs.dtype = "str"
    THEN [i \in DOMAIN refs.data |-> reference_id(cfg, refs.data[i])]
    ELSE refs.data

\* NormalisePredictions reached without the NaN check of line 71.
NormalisePredictionsUnchecked ==
    /\ pc = "cm_nan_check"
    /\ LET preds == normalised_predictions(dataset_config, predictions)
           refs == normalised_labels(dataset_config, labels)
       IN  IF \E i \in DOMAIN preds : preds[i] = -1
           THEN /\ exception' = "KeyError"
                /\ pc' = "cm_raised"
                /\ UNCHANGED <<predictions, label_ids>>
           ELSE IF \E i \in DOMAIN refs : refs[i] = -1
           THEN /\ exception' = "KeyError"
                /\ pc' = "cm_raised"
                /\ predictions' = [dtype |-> "int", data |-> preds]
                /\ UNCHANGED label_ids
           ELSE /\ predictions' = [dtype |-> "int", data |-> preds]
                /\ label_ids' = refs
                /\ pc' = "cm_metrics"
                /\ UNCHANGED exception
    /\ UNCHANGED <<dataset_config, model_output, lpVars, weVars, model_outputs,
                   labels, task_metrics, metric_idx, metric_calls, results>>
    /\ UNCHANGED <<bsVars, ftVars>>

\* Lines 73-88: no NaN was found; string predictions and references are
\* mapped to label ids; a failed dictionary lookup raises KeyError.
NormalisePredictions ==
    /\ pc = "cm_nan_check"
    /\ ~contains_nan_values(model_outputs)
    /\ LET preds == normalised_predictions(dataset_config, predictions)
           refs == normalised_labels(dataset_config, labels)
       IN  IF \E i \in DOMAIN preds : preds[i] = -1
           THEN /\ exception' = "KeyError"
                /\ pc' = "cm_raised"
                /\ UNCHANGED <<predictions, label_ids>>
           ELSE IF \E i \in DOMAIN refs : refs[i] = -1
           THEN /\ exception' = "KeyError"
                /\ pc' = "cm_raised"
                /\ predictions' = [dtype |-> "int", data |-> preds]
                /\ UNCHANGED label_ids
           ELSE /\ predictions' = [dtype |-> "int", data |-> preds]
                /\ label_ids' = refs
                /\ pc' = "cm_metrics"
                /\ UNCHANGED exception
    /\ UNCHANGED <<dataset_config, model_output, lpVars, weVars, model_outputs,
                   labels, task_metrics, metric_idx, metric_calls, results>>
    /\ UNCHANGED <<bsVars, ftVars>>

\* sum(scores) / len(scores)
RECURSIVE sum(_)
sum(xs) == IF xs = <<>> THEN 0 ELSE Head(xs) + sum(Tail(xs))

\* A score: the quotient num / den.
score(num, den) == [kind |-> "float", num |-> num, den |-> den]

mean(xs) == score(sum(xs), Len(xs))

\* recorded_scores keeping a list of scores as it is.
recorded_scores_unreduced(score_dict) ==
    IF score_dict.kind = "list"
    THEN [kind |-> "list", scores |-> score_dict.scores]
    ELSE score(score_dict.scores[1], 1)

\* What the loop stores under the metric name for a score dictionary.
recorded_scores(score_dict) ==
    IF score_dict.kind = "list"
    THEN mean(score_dict.scores)
    ELSE score(score_dict.scores[1], 1)

\* The call metric.compute(predictions=..., references=...) and its result.
metric_call(cfg, preds, refs, score_dict) ==
    [name |-> cfg.name, predictions |-> preds, references |-> refs,
     returned |-> score_dict]

\* ComputeMetric recording a zero score for a metric that returned None.
ComputeMetricZeroFill ==
    /\ pc = "cm_metrics"
    /\ metric_idx < Len(task_metrics)
    /\ LET cfg == task_metrics[metric_idx + 1]
       IN  IF cfg.huggingface_id = ""
           THEN /\ exception' = "AssertionError"
                /\ pc' = "cm_raised"
                /\ UNCHANGED <<metric_calls, results>>
           ELSE \E score_dict \in MetricOutcomes :
                /\ metric_calls' =
                      Append(metric_calls,
                             metric_call(cfg, predictions.data, label_ids, score_dict))
                /\ results' =
                      IF score_dict.kind = "none"
                      THEN (cfg.name :> score(0, 1)) @@ results
                      ELSE (cfg.name :> recorded_scores(score_dict)) @@ results
                /\ UNCHANGED <<pc, exception>>
    /\ metric_idx' = metric_idx + 1
    /\ UNCHANGED <<dataset_config, model_output, lpVars, weVars,
                   model_outputs, labels, task_metrics, predictions, label_ids>>
    /\ UNCHANGED <<bsVars, ftVars>>

\* Lines 91-104: one iteration of the loop over the metric configurations:
\* the metric is computed and, unless it returned None, its score recorded.
ComputeMetric ==
    /\ pc = "cm_metrics"
    /\ metric_idx < Len(task_metrics)
    /\ LET cfg == task_metrics[metric_idx + 1]
       IN  IF cfg.huggingface_id = ""
           THEN /\ exception' = "AssertionError"
                /\ pc' = "cm_raised"
                /\ UNCHANGED <<metric_calls, results>>
           ELSE \E score_dict \in MetricOutcomes :
                /\ metric_calls' =
                      Append(metric_calls,
                             metric_call(cfg, predictions.data, label_ids, score_dict))
                /\ results' =
                      IF score_dict.kind = "none" THEN results
                      ELSE (cfg.name :> recorded_scores(score_dict)) @@ results
                /\ UNCHANGED <<pc, exception>>
    /\ metric_idx' = metric_idx + 1
    /\ UNCHANGED <<dataset_config, model_output, lpVars, weVars,
                   model_outputs, labels, task_metrics, predictions, label_ids>>
    /\ UNCHANGED <<bsVars, ftVars>>

\* Line 106: return results
ReturnResults ==
    /\ pc = "cm_metrics"
    /\ metric_idx >= Len(task_metrics)
    /\ pc' = "cm_returned"
    /\ UNCHANGED <<dataset_config, model_output, lpVars, weVars, cmVars>>
    /\ UNCHANGED <<bsVars, ftVars>>

----------------------------------------------------------------------------
(* BenchmarkDataset._compute_metrics *)

\* The model outputs _compute_metrics can be given: those of compute_metrics,
\* or English labels (as the edit-distance resolver returns them).
ScandevalModelOutputs(cfg) ==
    ModelOutputs(cfg)
    \cup {[dtype |-> "str", data |-> d] : d \in BoundedSeq(Range(cfg.id2label), MaxBatch)}

\* id2label.index(label), 0-based.
list_index(xs, x) ==
    (CHOOSE i \in DOMAIN xs : xs[i] = x /\ \A j \in DOMAIN xs : xs[j] = x => i <= j) - 1

\* id2label.index(prompt_label_to_label_mapping[label.lower()]); -1 when the
\* dictionary lookup fails.
scandeval_label_id(cfg, label) ==
    IF lower(label) \in DOMAIN prompt_label_to_label_mapping(cfg)
    THEN list_index(cfg.id2label, prompt_label_to_label_mapping(cfg)[lower(label)])
    ELSE -1

scandeval_normalised(cfg, array) ==
    IF array.dtype = "str"
    THEN [i \in DOMAIN array.data |-> scandeval_label_id(cfg, array.data[i])]
    ELSE array.data

\* Lines 1328-1334: the arguments are unpacked and the predictions are taken
\* from the model outputs.
CallScandevalComputeMetrics ==
    /\ pc = "idle"
    /\ \E cfg \in DatasetConfigs :
        /\ dataset_config' = cfg
        /\ \E outputs \in ScandevalModelOutputs(cfg) :
            /\ model_outputs' = outputs
            /\ labels' \in LabelArrays(cfg, Len(outputs.data))
            /\ predictions' =
                  IF outputs.dtype = "float"
                  THEN [dtype |-> "int",
                        data |-> [i \in DOMAIN outputs.data |->
                                     argmax_row(outputs.data[i])]]
                  ELSE outputs
    /\ task_metrics' \in TaskMetricLists
    /\ label_ids' = <<>>
    /\ metric_idx' = 0
    /\ metric_calls' = <<>>
    /\ results' = <<>>
    /\ exception' = "none"
    /\ pc' = "scm_normalise"
    /\ UNCHANGED <<model_output, lpVars, weVars>>
    /\ UNCHANGED <<bsVars, ftVars>>

\* Lines 1336-1352: string predictions and labels are mapped to label ids; a
\* failed dictionary lookup raises KeyError.
ScandevalNormalise ==
    /\ pc = "scm_normalise"
    /\ LET preds == scandeval_normalised(dataset_config, predictions)
           refs == scandeval_normalised(dataset_config, labels)
       IN  IF \E i \in DOMAIN preds : preds[i] = -1
           THEN /\ exception' = "KeyError"
                /\ pc' = "scm_raised"
                /\ UNCHANGED <<predictions, label_ids>>
           ELSE IF \E i \in DOMAIN refs : refs[i] = -1
           THEN /\ exception' = "KeyError"
                /\ pc' = "scm_raised"
                /\ predictions' = [dtype |-> "int", data |-> preds]
                /\ UNCHANGED label_ids
           ELSE /\ predictions' = [dtype |-> "int", data |-> preds]
                /\ label_ids' = refs
                /\ pc' = "scm_metrics"
                /\ UNCHANGED exception
    /\ UNCHANGED <<dataset_config, model_output, lpVars, weVars, model_outputs,
                   labels, task_metrics, metric_idx, metric_calls, results>>
    /\ UNCHANGED <<bsVars, ftVars>>

\* What the loop of _compute_metrics stores under the metric name: the value
\* under the results key as it is.
scandeval_recorded_scores(score_dict) ==
    IF score_dict.kind = "list"
    THEN [kind |-> "list", scores |-> score_dict.scores]
    ELSE score(score_dict.scores[1], 1)

\* Lines 1355-1364: one iteration of the loop over the metric configurations.
\* A metric that was not loaded is None, and calling its compute raises.
ScandevalComputeMetric ==
    /\ pc = "scm_metrics"
    /\ metric_idx < Len(task_metrics)
    /\ LET cfg == task_metrics[metric_idx + 1]
       IN  IF cfg.huggingface_id = ""
           THEN /\ exception' = "AttributeError"
                /\ pc' = "scm_raised"
                /\ UNCHANGED <<metric_calls, results>>
           ELSE \E score_dict \in MetricOutcomes :
                /\ metric_calls' =
                      Append(metric_calls,
                             metric_call(cfg, predictions.data, label_ids, score_dict))
                /\ results' =
                      IF score_dict.kind = "none" THEN results
                      ELSE (cfg.name :> scandeval_recorded_scores(score_dict)) @@ results
                /\ UNCHANGED <<pc, exception>>
    /\ metric_idx' = metric_idx + 1
    /\ UNCHANGED <<dataset_config, model_output, lpVars, weVars,
                   model_outputs, labels, task_metrics, predictions, label_ids>>
    /\ UNCHANGED <<bsVars, ftVars>>

\* Line 1365: return results
ScandevalReturnResults ==
    /\ pc = "scm_metrics"
    /\ metric_idx >= Len(task_metrics)
    /\ pc' = "scm_returned"
    /\ UNCHANGED <<dataset_config, model_output, lpVars, weVars, cmVars>>
    /\ UNCHANGED <<bsVars, ftVars>>

----------------------------------------------------------------------------
(* BenchmarkDataset._generate_single_iteration: the batch size *)

\* The locals of compute_metrics other than the exception.
metricLocals == <<model_outputs, labels, task_metrics, predictions, label_ids,
                  metric_idx, metric_calls, results>>

\* 2**n
RECURSIVE pow2(_)
pow2(n) == IF n = 0 THEN 1 ELSE 2 * pow2(n - 1)

\* np.log2(b).astype(int) for b >= 1: the number of halvings that leave b >= 1.
RECURSIVE floor_log2(_)
floor_log2(b) == IF b < 2 THEN 0 ELSE 1 + floor_log2(b \div 2)

\* candidate_batch_sizes whose range stops one short.
candidate_batch_sizes_short(b) ==
    [n \in 1..floor_log2(b) |-> b \div pow2(n - 1)]

\* batch_sizes: batch_size // 2**n for n in range(1 + log2(batch_size)).
candidate_batch_sizes(b) ==
    [n \in 1..(1 + floor_log2(b)) |-> b \div pow2(n - 1)]

GpuOutOfMemory == "InvalidBenchmark: GPU out of memory, even with a batch size of 1!"

\* Lines 589-593: the candidate batch sizes are computed from the configured
\* batch size (b >= 1, so the list has a first element).
CallGenerateSingleIteration ==
    /\ pc = "idle"
    /\ \E b \in 1..MaxBatchSize :
        /\ benchmark_batch_size' = b
        /\ batch_sizes' = candidate_batch_sizes(b)
        /\ batch_size' = IF candidate_batch_sizes(b) = <<>>
                         THEN 0 ELSE candidate_batch_sizes(b)[1]
    /\ dummy_outcomes' = <<>>
    /\ pc' = "bs_loop"
    /\ UNCHANGED <<dataset_config, model_output, lpVars, weVars, cmVars, ftVars>>

\* The dummy generation with the next candidate succeeds: break.
DummyGenerationSucceeds ==
    /\ pc = "bs_loop"
    /\ Len(dummy_outcomes) < Len(batch_sizes)
    /\ batch_size' = batch_sizes[Len(dummy_outcomes) + 1]
    /\ dummy_outcomes' = Append(dummy_outcomes, "ok")
    /\ pc' = "bs_found"
    /\ UNCHANGED <<dataset_config, model_output, lpVars, weVars, cmVars, ftVars>>
    /\ UNCHANGED <<benchmark_batch_size, batch_sizes>>

\* The dummy generation raises an out-of-memory error: continue.
DummyGenerationOutOfMemory ==
    /\ pc = "bs_loop"
    /\ Len(dummy_outcomes) < Len(batch_sizes)
    /\ batch_size' = batch_sizes[Len(dummy_outcomes) + 1]
    /\ dummy_outcomes' = Append(dummy_outcomes, "oom")
    /\ UNCHANGED <<dataset_config, model_output, lpVars, weVars, cmVars, ftVars>>
    /\ UNCHANGED <<pc, benchmark_batch_size, batch_sizes>>

\* The dummy generation raises another error: InvalidBenchmark(str(e)).
DummyGenerationFails ==
    /\ pc = "bs_loop"
    /\ Len(dummy_outcomes) < Len(batch_sizes)
    /\ batch_size' = batch_sizes[Len(dummy_outcomes) + 1]
    /\ dummy_outcomes' = Append(dummy_outcomes, "error")
    /\ exception' = "InvalidBenchmark: str(e)"
    /\ pc' = "bs_raised"
    /\ UNCHANGED <<dataset_config, model_output, lpVars, weVars, metricLocals, ftVars>>
    /\ UNCHANGED <<benchmark_batch_size, batch_sizes>>

\* for-else: every candidate was tried without a break.
BatchSizesExhausted ==
    /\ pc = "bs_loop"
    /\ Len(dummy_outcomes) >= Len(batch_sizes)
    /\ exception' = GpuOutOfMemory
    /\ pc' = "bs_raised"
    /\ UNCHANGED <<dataset_config, model_output, lpVars, weVars, metricLocals, ftVars>>
    /\ UNCHANGED bsVars

\* self.benchmark_config.batch_size = batch_size; the batches are generated
\* next (GenerateBatch).
StoreBatchSize ==
    /\ pc = "bs_found"
    /\ benchmark_batch_size' = batch_size
    /\ pc' = "bs_stored"
    /\ UNCHANGED <<dataset_config, model_output, lpVars, weVars, cmVars, ftVars>>
    /\ UNCHANGED <<batch_sizes, batch_size, dummy_outcomes>>

----------------------------------------------------------------------------
(* BenchmarkDataset._finetune and _finetune_single_iteration *)

\* The exception types of the except clause of _finetune_single_iteration.
CaughtExceptions == {"RuntimeError", "ValueError", "IndexError"}

\* The configured batch sizes (bs; ga is 32 // bs).
FinetuneBatchSizes == {1, 8, 32}

\* The scores _evaluate_dataset returns for a split in an iteration.
evaluate_dataset(iteration, split_name) ==
    [iteration |-> iteration, split |-> split_name]

\* handle_error: the batch size and gradient accumulation for the next
\* attempt (the function can also raise, see HandleErrorRaises).
handle_error(per_device_train_batch_size, gradient_accumulation_steps) ==
    {<<per_device_train_batch_size, gradient_accumulation_steps>>,
     <<IF per_device_train_batch_size > 1
       THEN per_device_train_batch_size \div 2 ELSE 1,
       gradient_accumulation_steps * 2>>}

\* The positions inside the try block of _finetune_single_iteration.
TryBlockPcs == {"fsi_load", "fsi_train", "fsi_eval_train", "fsi_eval_test"}

\* The attempt in progress, with its outcome recorded.
record_outcome(outcome) ==
    [attempts EXCEPT ![Len(attempts)].outcome = outcome]

\* Lines 254-257: scores is empty, bs and ga come from the configuration.
CallFinetune ==
    /\ pc = "idle"
    /\ num_iterations' \in 0..MaxIterations
    /\ evaluate_train' \in BOOLEAN
    /\ \E b \in FinetuneBatchSizes :
        /\ bs' = b
        /\ ga' = 32 \div b
    /\ finetune_scores' = [train |-> <<>>, test |-> <<>>]
    /\ iteration_idx' = 0
    /\ attempts' = <<>>
    /\ pc' = "ft_for"
    /\ UNCHANGED <<dataset_config, model_output, lpVars, weVars, cmVars, bsVars>>
    /\ UNCHANGED <<model_already_initialized, iteration_args, iteration_scores,
                   itr_scores>>

\* for idx in itr: lines 258-273, the model given to _finetune is used for
\* iteration 0 only.
BeginIteration ==
    /\ pc = "ft_for"
    /\ iteration_idx < num_iterations
    /\ model_already_initialized' = (iteration_idx = 0)
    /\ pc' = "ft_while"
    /\ UNCHANGED <<dataset_config, model_output, lpVars, weVars, cmVars, bsVars>>
    /\ UNCHANGED <<num_iterations, evaluate_train, iteration_idx, bs, ga,
                   iteration_args, iteration_scores, itr_scores, finetune_scores,
                   attempts>>

\* Lines 276-303 and 386: _finetune_single_iteration is called with the
\* current batch size and gradient accumulation, and with the model and the
\* tokenizer or with None for both.
CallSingleIteration ==
    /\ pc = "ft_while"
    /\ Len(attempts) < MaxAttempts
    /\ iteration_args' =
          [iteration_idx |-> iteration_idx,
           per_device_train_batch_size |-> bs,
           gradient_accumulation_steps |-> ga,
           tokenizer |-> IF model_already_initialized THEN <<"tokenizer">> ELSE None,
           model |-> IF model_already_initialized THEN <<"model">> ELSE None]
    /\ attempts' = Append(attempts, [args |-> iteration_args',
                                      outcome |-> "running",
                                      handled |-> None])
    /\ iteration_scores' = <<>>
    /\ pc' = "fsi_load"
    /\ UNCHANGED <<dataset_config, model_output, lpVars, weVars, cmVars, bsVars>>
    /\ UNCHANGED <<num_iterations, evaluate_train, iteration_idx, bs, ga,
                   model_already_initialized, itr_scores, finetune_scores>>

\* Lines 388-437: the seeds are set, a model is loaded when none was given,
\* and the trainer is built.
LoadModel ==
    /\ pc = "fsi_load"
    /\ pc' = "fsi_train"
    /\ UNCHANGED <<dataset_config, model_output, lpVars, weVars, cmVars, bsVars, ftVars>>

\* Lines 440-445: trainer.train()
Train ==
    /\ pc = "fsi_train"
    /\ pc' = IF evaluate_train THEN "fsi_eval_train" ELSE "fsi_eval_test"
    /\ UNCHANGED <<dataset_config, model_output, lpVars, weVars, cmVars, bsVars, ftVars>>

\* Lines 445-452: the training scores, when evaluate_train is set.
EvaluateTrain ==
    /\ pc = "fsi_eval_train"
    /\ iteration_scores' =
          ("train" :> evaluate_dataset(iteration_args.iteration_idx, "train"))
    /\ pc' = "fsi_eval_test"
    /\ UNCHANGED <<dataset_config, model_output, lpVars, weVars, cmVars, bsVars>>
    /\ UNCHANGED <<num_iterations, evaluate_train, iteration_idx, bs, ga,
                   model_already_initialized, iteration_args, itr_scores,
                   finetune_scores, attempts>>

\* Lines 455-464: the test scores are added and the dictionary is returned.
EvaluateTest ==
    /\ pc = "fsi_eval_test"
    /\ iteration_scores' =
          ("test" :> evaluate_dataset(iteration_args.iteration_idx, "test"))
              @@ iteration_scores
    /\ itr_scores' = [kind |-> "dict", value |-> iteration_scores']
    /\ attempts' = record_outcome("scores")
    /\ pc' = "ft_check"
    /\ UNCHANGED <<dataset_config, model_output, lpVars, weVars, cmVars, bsVars>>
    /\ UNCHANGED <<num_iterations, evaluate_train, iteration_idx, bs, ga,
                   model_already_initialized, iteration_args, finetune_scores>>

\* RaiseCaught without IndexError in the except clause: it propagates.
RaiseCaughtExceptIndexError ==
    /\ pc \in TryBlockPcs
    /\ \E e \in CaughtExceptions :
        /\ attempts' = record_outcome(e)
        /\ IF e = "IndexError"
           THEN /\ exception' = e
                /\ pc' = "ft_raised"
                /\ UNCHANGED itr_scores
           ELSE /\ itr_scores' = [kind |-> "exception", type |-> e]
                /\ pc' = "ft_check"
                /\ UNCHANGED exception
    /\ UNCHANGED <<dataset_config, model_output, lpVars, weVars, metricLocals, bsVars>>
    /\ UNCHANGED <<num_iterations, evaluate_train, iteration_idx, bs, ga,
                   model_already_initialized, iteration_args, iteration_scores,
                   finetune_scores>>

\* Lines 387-476: a step of the try block raises a RuntimeError, ValueError
\* or IndexError; the except clause returns the exception.
RaiseCaught ==
    /\ pc \in TryBlockPcs
    /\ \E e \in CaughtExceptions :
        /\ attempts' = record_outcome(e)
        /\ itr_scores' = [kind |-> "exception", type |-> e]
    /\ pc' = "ft_check"
    /\ UNCHANGED <<dataset_config, model_output, lpVars, weVars, cmVars, bsVars>>
    /\ UNCHANGED <<num_iterations, evaluate_train, iteration_idx, bs, ga,
                   model_already_initialized, iteration_args, iteration_scores,
                   finetune_scores>>

\* A step of the try block raises an exception of a type the except clause
\* does not name, here a KeyError: it leaves _finetune_single_iteration and
\* _finetune.
RaiseOther ==
    /\ pc \in TryBlockPcs
    /\ attempts' = record_outcome("KeyError")
    /\ exception' = "KeyError"
    /\ pc' = "ft_raised"
    /\ UNCHANGED <<dataset_config, model_output, lpVars, weVars, metricLocals, bsVars>>
    /\ UNCHANGED <<num_iterations, evaluate_train, iteration_idx, bs, ga,
                   model_already_initialized, iteration_args, iteration_scores,
                   itr_scores, finetune_scores>>

\* Lines 306-307 and 333-337: the value returned is a dictionary; its scores
\* are appended and the for loop goes on.
IterationSucceeded ==
    /\ pc = "ft_check"
    /\ itr_scores.kind = "dict"
    /\ finetune_scores' =
          [train |-> IF "train" \in DOMAIN itr_scores.value
                     THEN Append(finetune_scores.train, itr_scores.value["train"])
                     ELSE finetune_scores.train,
           test |-> Append(finetune_scores.test, itr_scores.value["test"])]
    /\ iteration_idx' = iteration_idx + 1
    /\ pc' = "ft_for"
    /\ UNCHANGED <<dataset_config, model_output, lpVars, weVars, cmVars, bsVars>>
    /\ UNCHANGED <<num_iterations, evaluate_train, bs, ga,
                   model_already_initialized, iteration_args, iteration_scores,
                   itr_scores, attempts>>

\* HandleErrorReturns without line 331: the next attempt reuses the model.
HandleErrorKeepsModel ==
    /\ pc = "ft_check"
    /\ itr_scores.kind = "exception"
    /\ \E handled \in handle_error(iteration_args.per_device_train_batch_size,
                                     iteration_args.gradient_accumulation_steps) :
        /\ bs' = handled[1]
        /\ ga' = handled[2]
        /\ attempts' = [attempts EXCEPT ![Len(attempts)].handled = handled]
    /\ pc' = "ft_while"
    /\ UNCHANGED <<dataset_config, model_output, lpVars, weVars, cmVars, bsVars>>
    /\ UNCHANGED <<num_iterations, evaluate_train, iteration_idx, iteration_args,
                   model_already_initialized, iteration_scores, itr_scores,
                   finetune_scores>>

\* Lines 311-331: the value returned is an exception; handle_error returns
\* the batch size and gradient accumulation of the next attempt, which gets a
\* fresh model.
HandleErrorReturns ==
    /\ pc = "ft_check"
    /\ itr_scores.kind = "exception"
    /\ \E handled \in handle_error(iteration_args.per_device_train_batch_size,
                                     iteration_args.gradient_accumulation_steps) :
        /\ bs' = handled[1]
        /\ ga' = handled[2]
        /\ attempts' = [attempts EXCEPT ![Len(attempts)].handled = handled]
    /\ model_already_initialized' = FALSE
    /\ pc' = "ft_while"
    /\ UNCHANGED <<dataset_config, model_output, lpVars, weVars, cmVars, bsVars>>
    /\ UNCHANGED <<num_iterations, evaluate_train, iteration_idx, iteration_args,
                   iteration_scores, itr_scores, finetune_scores>>

\* Line 315: handle_error raises instead of returning.
HandleErrorRaises ==
    /\ pc = "ft_check"
    /\ itr_scores.kind = "exception"
    /\ exception' = "InvalidBenchmark"
    /\ pc' = "ft_raised"
    /\ UNCHANGED <<dataset_config, model_output, lpVars, weVars, metricLocals, bsVars>>
    /\ UNCHANGED ftVars

\* Line 339: return scores
ReturnScores ==
    /\ pc = "ft_for"
    /\ iteration_idx >= num_iterations
    /\ pc' = "ft_returned"
    /\ UNCHANGED <<dataset_config, model_output, lpVars, weVars, cmVars, bsVars, ftVars>>

----------------------------------------------------------------------------

Init ==
    /\ pc = "idle"
    /\ dataset_config = YesYellowConfig
    /\ num_samples = 0
    /\ sample_idx = 0
    /\ sample_len = 0
    /\ sample = <<>>
    /\ step_idx = 0
    /\ generated_labels = <<>>
    /\ label_idx = 0
    /\ previously_generated_labels = <<>>
    /\ output_label = None
    /\ output_labels = <<>>
    /\ rerun_output_label = None
    /\ rerun_output_labels = <<>>
    /\ log = <<>>
    /\ model_output = [scores |-> None, sequences |-> <<>>]
    /\ generated_sequences = <<>>
    /\ raw_predictions = <<>>
    /\ seq_idx = 0
    /\ new_predicted_labels = <<>>
    /\ predicted_labels = <<>>
    /\ all_preds = <<>>
    /\ model_outputs = NoArray
    /\ labels = NoArray
    /\ task_metrics = <<>>
    /\ predictions = NoArray
    /\ label_ids = <<>>
    /\ metric_idx = 0
    /\ metric_calls = <<>>
    /\ results = <<>>
    /\ exception = "none"
    /\ benchmark_batch_size = 0
    /\ batch_sizes = <<>>
    /\ batch_size = 0
    /\ dummy_outcomes = <<>>
    /\ num_iterations = 0
    /\ evaluate_train = FALSE
    /\ iteration_idx = 0
    /\ bs = 0
    /\ ga = 0
    /\ model_already_initialized = FALSE
    /\ iteration_args = None
    /\ iteration_scores = None
    /\ itr_scores = None
    /\ finetune_scores = None
    /\ attempts = <<>>

\* The positions at which a call has returned or raised.
FinalPcs ==
    {"lp_returned", "lp_raised", "we_returned", "gen_done",
     "cm_returned", "cm_raised", "scm_returned", "scm_raised",
     "bs_stored", "bs_raised", "ft_returned", "ft_raised"}

\* The call is over: its locals are gone, and the next call starts afresh.
EndCall ==
    /\ pc \in FinalPcs
    /\ pc' = "idle"
    /\ dataset_config' = YesYellowConfig
    /\ num_samples' = 0
    /\ sample_idx' = 0
    /\ sample_len' = 0
    /\ sample' = <<>>
    /\ step_idx' = 0
    /\ generated_labels' = <<>>
    /\ label_idx' = 0
    /\ previously_generated_labels' = <<>>
    /\ output_label' = None
    /\ output_labels' = <<>>
    /\ rerun_output_label' = None
    /\ rerun_output_labels' = <<>>
    /\ log' = <<>>
    /\ model_output' = [scores |-> None, sequences |-> <<>>]
    /\ generated_sequences' = <<>>
    /\ raw_predictions' = <<>>
    /\ seq_idx' = 0
    /\ new_predicted_labels' = <<>>
    /\ predicted_labels' = <<>>
    /\ all_preds' = <<>>
    /\ model_outputs' = NoArray
    /\ labels' = NoArray
    /\ task_metrics' = <<>>
    /\ predictions' = NoArray
    /\ label_ids' = <<>>
    /\ metric_idx' = 0
    /\ metric_calls' = <<>>
    /\ results' = <<>>
    /\ exception' = "none"
    /\ benchmark_batch_size' = 0
    /\ batch_sizes' = <<>>
    /\ batch_size' = 0
    /\ dummy_outcomes' = <<>>
    /\ num_iterations' = 0
    /\ evaluate_train' = FALSE
    /\ iteration_idx' = 0
    /\ bs' = 0
    /\ ga' = 0
    /\ model_already_initialized' = FALSE
    /\ iteration_args' = None
    /\ iteration_scores' = None
    /\ itr_scores' = None
    /\ finetune_scores' = None
    /\ attempts' = <<>>

Next ==
    \/ CallExtractLabels
    \/ DispatchLogprobs
    \/ DispatchWordEdit
    \/ WordEditStep
    \/ WordEditReturn
    \/ GenerateBatch
    \/ GenDispatchLogprobs
    \/ GenDispatchWordEdit
    \/ ExtractRawPredictions
    \/ ScandevalWordEditStep
    \/ ScandevalWordEditReturn
    \/ ExtendAllPreds
    \/ CallComputeMetrics
    \/ RaiseNaN
    \/ NormalisePredictions
    \/ ComputeMetric
    \/ ReturnResults
    \/ CallScandevalComputeMetrics
    \/ ScandevalNormalise
    \/ ScandevalComputeMetric
    \/ ScandevalReturnResults
    \/ NextSample
    \/ BeginStep
    \/ TokenUnique
    \/ TokenAmbiguousFirst
    \/ TokenAmbiguousLater
    \/ TokenNoMatch
    \/ TokensExhausted
    \/ AppendOutputLabel
    \/ NextStep
    \/ Fallback
    \/ ReturnLabels
    \/ CallGenerateSingleIteration
    \/ DummyGenerationSucceeds
    \/ DummyGenerationOutOfMemory
    \/ DummyGenerationFails
    \/ BatchSizesExhausted
    \/ StoreBatchSize
    \/ CallFinetune
    \/ BeginIteration
    \/ CallSingleIteration
    \/ LoadModel
    \/ Train
    \/ EvaluateTrain
    \/ EvaluateTest
    \/ RaiseCaught
    \/ RaiseOther
    \/ IterationSucceeded
    \/ HandleErrorReturns
    \/ HandleErrorRaises
    \/ ReturnScores
    \/ EndCall

Spec == Init /\ [][Next]_vars

\* The calls of extract_labels_from_generation that reach
\* get_closest_logprobs_labels.
NextLogprobs ==
    \/ CallExtractLabels
    \/ DispatchLogprobs
    \/ NextSample
    \/ BeginStep
    \/ TokenUnique
    \/ TokenAmbiguousFirst
    \/ TokenAmbiguousLater
    \/ TokenNoMatch
    \/ TokensExhausted
    \/ AppendOutputLabel
    \/ NextStep
    \/ Fallback
    \/ ReturnLabels
    \/ EndCall

SpecLogprobs == Init /\ [][NextLogprobs]_vars

\* The calls of get_closest_logprobs_labels with a single example of a single
\* generation step.
NextTokenLoop ==
    \/ CallWithSingleStep
    \/ TokenUnique
    \/ TokenAmbiguousFirst
    \/ TokenAmbiguousLater
    \/ TokenNoMatch
    \/ TokensExhausted
    \/ AppendOutputLabel
    \/ NextStep
    \/ Fallback
    \/ ReturnLabels
    \/ EndCall

SpecTokenLoop == Init /\ [][NextTokenLoop]_vars

\* The calls that reach an edit-distance resolver.
NextWordEdit ==
    \/ CallExtractLabels
    \/ DispatchWordEdit
    \/ WordEditStep
    \/ WordEditReturn
    \/ GenerateBatch
    \/ GenDispatchWordEdit
    \/ ExtractRawPredictions
    \/ ScandevalWordEditStep
    \/ ScandevalWordEditReturn
    \/ ExtendAllPreds
    \/ EndCall

SpecWordEdit == Init /\ [][NextWordEdit]_vars

\* The calls of compute_metrics and of BenchmarkDataset._compute_metrics.
NextMetrics ==
    \/ CallComputeMetrics
    \/ RaiseNaN
    \/ NormalisePredictions
    \/ ComputeMetric
    \/ ReturnResults
    \/ CallScandevalComputeMetrics
    \/ ScandevalNormalise
    \/ ScandevalComputeMetric
    \/ ScandevalReturnResults
    \/ EndCall

SpecMetrics == Init /\ [][NextMetrics]_vars

\* The batch-size search of _generate_single_iteration.
NextBatchSize ==
    \/ CallGenerateSingleIteration
    \/ DummyGenerationSucceeds
    \/ DummyGenerationOutOfMemory
    \/ DummyGenerationFails
    \/ BatchSizesExhausted
    \/ StoreBatchSize
    \/ EndCall

SpecBatchSize == Init /\ [][NextBatchSize]_vars

\* The calls of _finetune.
NextFinetune ==
    \/ CallFinetune
    \/ BeginIteration
    \/ CallSingleIteration
    \/ LoadModel
    \/ Train
    \/ EvaluateTrain
    \/ EvaluateTest
    \/ RaiseCaught
    \/ RaiseOther
    \/ IterationSucceeded
    \/ HandleErrorReturns
    \/ HandleErrorRaises
    \/ ReturnScores
    \/ EndCall

SpecFinetune == Init /\ [][NextFinetune]_vars

----------------------------------------------------------------------------
(* Properties of get_closest_logprobs_labels. *)

LogprobPcs == {"lp_sample", "lp_step", "lp_token", "lp_step_end", "lp_returned", "lp_raised"}

\* The example held in `sample` has just received its label, the last entry
\* of output_labels.
LabelAppended == pc = "lp_sample" /\ sample_idx > 0

LastLabel == output_labels[Len(output_labels)]

\* The classes (indices of id2label) one of whose candidate strings, the
\* lower-cased localized label or the English label, starts with the probe.
MatchedClasses(cfg, probe) ==
    {i \in DOMAIN cfg.id2label :
        \/ startswith(lower(cfg.prompt_label_mapping[cfg.id2label[i]]), probe)
        \/ startswith(cfg.id2label[i], probe)}

LocalizedLabelOf(cfg, i) == cfg.prompt_label_mapping[cfg.id2label[i]]

\* The cleaned top-ranked token of step k (1-based) of the example, or the
\* empty string when the step has no ranked token.
CleanedTop(k) == IF sample[k] = <<>> THEN <<>> ELSE clean_label(sample[k][1])

C2_UniqueTopTokenReturned ==
    (/\ LabelAppended
     /\ sample_len >= 1
     /\ Cardinality(MatchedClasses(dataset_config, CleanedTop(1))) = 1)
    => \E i \in MatchedClasses(dataset_config, CleanedTop(1)) :
          LastLabel = LocalizedLabelOf(dataset_config, i)

\* C3: if the top token of step 0 is a prefix of several candidates and its
\* concatenation with the top token of step 1 is a prefix of exactly one
\* candidate, that candidate is returned for the example.
C3_PrefixPersistsAcrossSteps ==
    (/\ LabelAppended
     /\ Len(sample) >= 2
     /\ CleanedTop(1) # <<>>
     /\ CleanedTop(2) # <<>>
     /\ Cardinality(MatchedClasses(dataset_config, CleanedTop(1))) > 1
     /\ Cardinality(MatchedClasses(dataset_config, CleanedTop(1) \o CleanedTop(2))) = 1)
    => \E i \in MatchedClasses(dataset_config, CleanedTop(1) \o CleanedTop(2)) :
          LastLabel = LocalizedLabelOf(dataset_config, i)

\* No cleaned token of any step read of the example starts a candidate (so
\* the accumulator stays empty and every probe is a token alone).
NoTokenMatches ==
    \A k \in DOMAIN sample :
        \A r \in DOMAIN sample[k] :
            \/ clean_label(sample[k][r]) = <<>>
            \/ MatchedClasses(dataset_config, clean_label(sample[k][r])) = {}

C5_Deterministic ==
    pc = "lp_returned" => rerun_output_labels = output_labels

\* C6: every label returned is a localized label, a value of
\* prompt_label_mapping.
C6_ReturnedLabelsAreLocalized ==
    pc \in LogprobPcs =>
        \A i \in DOMAIN output_labels :
            output_labels[i] \in Range(dataset_config.prompt_label_mapping)

----------------------------------------------------------------------------
(* Properties of the edit-distance resolvers. *)

\* The case-folded edit distance from a string to the k-th candidate.
FoldedDistance(string, candidates, k) ==
    levenshtein_distance(lower(string), lower(candidates[k]))

\* label is the first candidate, in list order, at minimal case-folded edit
\* distance from string, as the literal entry of the list.
IsFirstMinimal(label, string, candidates) ==
    \E k \in DOMAIN candidates :
        /\ label = candidates[k]
        /\ LET chosen == FoldedDistance(string, candidates, k)
           IN  \A j \in DOMAIN candidates :
                  LET other == FoldedDistance(string, candidates, j)
                  IN  /\ other >= chosen
                      /\ j < k => other > chosen

\* Several candidates are at the minimal distance from string.
TiedMinimal(string, candidates) ==
    \E k, j \in DOMAIN candidates :
        /\ k # j
        /\ LET tied == FoldedDistance(string, candidates, k)
           IN  /\ tied = FoldedDistance(string, candidates, j)
               /\ \A m \in DOMAIN candidates :
                     FoldedDistance(string, candidates, m) >= tied

\* C7: both edit-distance resolvers give one label per string consumed, in
\* order, each the first candidate in configured label order at minimal
\* case-folded edit distance from the string, as its literal string; the
\* returned list is as long as the input.
C7_FirstMinimalCandidate ==
    /\ pc \in {"we_loop", "we_returned"} =>
          /\ Len(new_predicted_labels) = seq_idx
          /\ pc = "we_returned" => seq_idx = Len(generated_sequences)
          /\ \A i \in DOMAIN new_predicted_labels :
                IsFirstMinimal(new_predicted_labels[i], generated_sequences[i],
                               word_edit_candidate_labels(dataset_config))
    /\ pc = "swe_loop" =>
          /\ Len(new_predicted_labels) = seq_idx
          /\ seq_idx <= Len(raw_predictions)
          /\ \A i \in DOMAIN new_predicted_labels :
                IsFirstMinimal(new_predicted_labels[i], raw_predictions[i],
                               dataset_config.id2label)

\* get_closest_word_edit_labels has returned the labels of two strings, one
\* of them at the same minimal distance from several candidates.
C7_Witness ==
    /\ pc = "we_returned"
    /\ Len(new_predicted_labels) = 2
    /\ \E i \in DOMAIN generated_sequences :
          TiedMinimal(generated_sequences[i],
                      word_edit_candidate_labels(dataset_config))

----------------------------------------------------------------------------
(* Properties of BenchmarkDataset._extract_raw_predictions. *)

\* The decoded text of the i-th generated sequence of the batch.
DecodedText(i) == decode(completion_ids(generated_sequences[i]))

\* The decoded text has no paragraph at the expected index.
SegmentMissing(text) ==
    Len(split(text, <<"\n", "\n">>)) < pred_idx(dataset_config) + 1

\* C8: the extraction returns one string per sequence without raising, and
\* for every example whose decoded text has no paragraph at the expected
\* index that string is the whole decoded text without its surrounding
\* whitespace.
C8_FallbackToWholeText ==
    pc = "swe_loop" =>
        /\ Len(raw_predictions) = Len(generated_sequences)
        /\ \A i \in DOMAIN generated_sequences :
              SegmentMissing(DecodedText(i)) =>
                 raw_predictions[i] = strip(DecodedText(i))

\* The extraction has fallen back for a text that ends in whitespace.
C8_Witness ==
    /\ pc = "swe_loop"
    /\ \E i \in DOMAIN generated_sequences :
          /\ SegmentMissing(DecodedText(i))
          /\ raw_predictions[i] # <<>>
          /\ raw_predictions[i] # DecodedText(i)

----------------------------------------------------------------------------
(* Properties of the dispatch between the resolvers. *)

----------------------------------------------------------------------------
(* Properties of compute_metrics. *)

ComputeMetricsPcs == {"cm_nan_check", "cm_metrics", "cm_raised", "cm_returned"}

\* Some numeric value of the model output is NaN.
HasNaN ==
    /\ model_outputs.dtype = "float"
    /\ \E i \in DOMAIN model_outputs.data :
          \E j \in DOMAIN model_outputs.data[i] : model_outputs.data[i][j] = "nan"

\* C10: whatever the metric configuration list, a call whose model output
\* contains a NaN value never gets past the NaN check: it raises
\* NaNValueInModelOutput, no metric is computed and no result is returned.
C10_NaNRaisesBeforeMetrics ==
    (pc \in ComputeMetricsPcs /\ HasNaN) =>
        /\ pc \in {"cm_nan_check", "cm_raised"}
        /\ pc = "cm_raised" => exception = "NaNValueInModelOutput"
        /\ metric_calls = <<>>
        /\ results = <<>>

\* A call with two configured metrics has raised on a NaN value.
C10_Witness ==
    /\ pc = "cm_raised"
    /\ HasNaN
    /\ exception = "NaNValueInModelOutput"
    /\ Len(task_metrics) = 2

----------------------------------------------------------------------------
(* Properties of the metric loops. *)

EuroevalMetricPcs == {"cm_metrics", "cm_returned"}

ScandevalMetricPcs == {"scm_metrics", "scm_returned"}

\* The names of the metrics whose computation returned a result.
NamesWithResult ==
    {metric_calls[i].name :
        i \in {j \in DOMAIN metric_calls : metric_calls[j].returned.kind # "none"}}

\* C11: in both metric loops the configured metrics are computed in order,
\* each once, whatever the earlier ones returned; the result mapping has an
\* entry for exactly the names whose computation returned a result, and on
\* return every configured metric has been computed.
C11_OmitsMetricsWithoutResult ==
    pc \in EuroevalMetricPcs \cup ScandevalMetricPcs =>
        /\ Len(metric_calls) = metric_idx
        /\ metric_idx <= Len(task_metrics)
        /\ \A i \in DOMAIN metric_calls : metric_calls[i].name = task_metrics[i].name
        /\ DOMAIN results = NamesWithResult
        /\ pc \in {"cm_returned", "scm_returned"} => metric_idx = Len(task_metrics)

\* compute_metrics has returned after its first metric returned None and
\* its second a score: only the second has an entry.
C11_Witness ==
    /\ pc = "cm_returned"
    /\ Len(metric_calls) = 2
    /\ metric_calls[1].returned.kind = "none"
    /\ metric_calls[2].returned.kind = "float"
    /\ DOMAIN results = {metric_calls[2].name}

\* The inverse of a configuration's prompt_label_mapping.
LocalizedToEnglish(cfg, localized) ==
    CHOOSE l \in DOMAIN cfg.prompt_label_mapping :
        cfg.prompt_label_mapping[l] = localized

\* The id of an English label: its position in id2label, from 0.
EnglishToId(cfg, english) ==
    (CHOOSE i \in DOMAIN cfg.id2label : cfg.id2label[i] = english) - 1

\* value is the id of the lower-cased string taken as a localized label.
IsIdOfLocalized(cfg, string, value) ==
    /\ lower(string) \in Range(cfg.prompt_label_mapping)
    /\ value = EnglishToId(cfg, LocalizedToEnglish(cfg, lower(string)))

\* value is the id of the lower-cased string taken as an English label.
IsIdOfEnglish(cfg, string, value) ==
    /\ lower(string) \in Range(cfg.id2label)
    /\ value = EnglishToId(cfg, lower(string))

\* The predictions handed to the metrics are the normalised model outputs.
PredictionsNormalised ==
    /\ Len(predictions.data) = Len(model_outputs.data)
    /\ model_outputs.dtype = "str" =>
          \A i \in DOMAIN model_outputs.data :
              IsIdOfLocalized(dataset_config, model_outputs.data[i], predictions.data[i])
    /\ model_outputs.dtype = "int" => predictions.data = model_outputs.data

\* Every metric call so far was given the normalised predictions and
\* references.
CallsGetNormalised ==
    \A i \in DOMAIN metric_calls :
        /\ metric_calls[i].predictions = predictions.data
        /\ metric_calls[i].references = label_ids

\* C12 as stated: in compute_metrics string predictions and string
\* references alike are lower-cased and mapped through the
\* localized-to-English mapping and the English-label-to-id mapping before
\* the metrics are computed; numeric ones are unchanged.
C12_ReferencesThroughLocalizedMapping ==
    pc \in EuroevalMetricPcs =>
        /\ PredictionsNormalised
        /\ Len(label_ids) = Len(labels.data)
        /\ labels.dtype = "str" =>
              \A i \in DOMAIN labels.data :
                  IsIdOfLocalized(dataset_config, labels.data[i], label_ids[i])
        /\ labels.dtype = "int" => label_ids = labels.data
        /\ CallsGetNormalised

\* C12, amended: string predictions are lower-cased and mapped through the
\* localized-to-English mapping and the English-label-to-id mapping; string
\* references are lower-cased and mapped through the English-label-to-id
\* mapping alone in compute_metrics, and through both mappings in
\* BenchmarkDataset._compute_metrics; numeric predictions and references are
\* unchanged; the metrics are given the normalised values.
C12_NormalisedBeforeMetrics ==
    /\ pc \in EuroevalMetricPcs =>
          /\ PredictionsNormalised
          /\ Len(label_ids) = Len(labels.data)
          /\ labels.dtype = "str" =>
                \A i \in DOMAIN labels.data :
                    IsIdOfEnglish(dataset_config, labels.data[i], label_ids[i])
          /\ labels.dtype = "int" => label_ids = labels.data
          /\ CallsGetNormalised
    /\ pc \in ScandevalMetricPcs =>
          /\ PredictionsNormalised
          /\ Len(label_ids) = Len(labels.data)
          /\ labels.dtype = "str" =>
                \A i \in DOMAIN labels.data :
                    IsIdOfLocalized(dataset_config, labels.data[i], label_ids[i])
          /\ labels.dtype = "int" => label_ids = labels.data
          /\ CallsGetNormalised

\* compute_metrics has computed a metric on two localized string predictions
\* and two English string references of a configuration whose localized
\* labels differ from the English ones.
C12_Witness ==
    /\ pc = "cm_returned"
    /\ model_outputs.dtype = "str"
    /\ labels.dtype = "str"
    /\ Len(model_outputs.data) = 2
    /\ model_outputs.data[1] # model_outputs.data[2]
    /\ labels.data[1] \notin Range(dataset_config.prompt_label_mapping)
    /\ metric_calls # <<>>

\* C13: no value of the result mapping of compute_metrics is a list; the
\* value recorded for a metric that returned a (non-empty) list of scores is
\* the unweighted mean of the list, sum / length.
C13_ListsReducedToMean ==
    pc \in EuroevalMetricPcs =>
        /\ \A name \in DOMAIN results : results[name].kind = "float"
        /\ \A i \in DOMAIN metric_calls :
              metric_calls[i].returned.kind = "list" =>
                  LET scores == metric_calls[i].returned.scores
                      value == results[metric_calls[i].name]
                  IN  value.num * Len(scores) = sum(scores) * value.den

\* compute_metrics has returned a mean that is not a whole number.
C13_Witness ==
    /\ pc = "cm_returned"
    /\ \E i \in DOMAIN metric_calls :
          /\ metric_calls[i].returned.kind = "list"
          /\ results[metric_calls[i].name].den = 2
          /\ results[metric_calls[i].name].num = 25

\* C14: for every entry (canonical, localized) of the prompt_label_mapping
\* of a call, a bijective mapping, the inverse mapping built by the metric
\* engine takes the localized label back to the canonical one.
C14_RoundTrip ==
    pc \in {"cm_nan_check", "scm_normalise"} \cup EuroevalMetricPcs \cup ScandevalMetricPcs =>
        \A canonical \in DOMAIN dataset_config.prompt_label_mapping :
            LET localized == dataset_config.prompt_label_mapping[canonical]
            IN  /\ localized \in DOMAIN prompt_label_to_label_mapping(dataset_config)
                /\ prompt_label_to_label_mapping(dataset_config)[localized] = canonical

\* The inverse mapping was used on the string predictions of a
\* configuration whose localized labels differ from the canonical ones.
C14_Witness ==
    /\ pc = "scm_metrics"
    /\ model_outputs.dtype = "str"
    /\ model_outputs.data # <<>>
    /\ \E canonical \in DOMAIN dataset_config.prompt_label_mapping :
          dataset_config.prompt_label_mapping[canonical] # canonical

----------------------------------------------------------------------------
(* Statelessness of get_closest_logprobs_labels. *)

\* The values output_label can have after the ranked tokens of one step,
\* from the token at position idx on, for a stored prefix and a current
\* value that are those of this step alone.
RECURSIVE StepLabels(_, _, _, _, _)
StepLabels(cfg, tokens, idx, prefix, current) ==
    IF idx > Len(tokens) THEN {current}
    ELSE LET probe == prefix \o tokens[idx]
             matching == candidate_output_labels(cfg, probe)
         IN  IF Cardinality(matching) = 1 THEN matching
             ELSE IF matching = {} THEN StepLabels(cfg, tokens, idx + 1, prefix, current)
             ELSE IF idx = 1 THEN StepLabels(cfg, tokens, idx + 1, probe, current)
             ELSE UNION {StepLabels(cfg, tokens, idx + 1, prefix, chosen) :
                            chosen \in matching}

\* The labels an example can get from its steps k.. alone, under a
\* configuration.
RECURSIVE ExampleLabels(_, _, _)
ExampleLabels(cfg, steps, k) ==
    IF k > Len(steps) THEN {candidate_labels(cfg)[1]}
    ELSE LET after == StepLabels(cfg, clean_generated_labels(steps[k]), 1, <<>>, None)
         IN  {dict_get(cfg.prompt_label_mapping, l) : l \in after \ {None}}
             \cup (IF None \in after THEN ExampleLabels(cfg, steps, k + 1) ELSE {})

\* A step of a call of get_closest_logprobs_labels leaves the configuration
\* and the labels of the earlier examples as they are.
LogprobStepFrame ==
    (pc \in LogprobPcs /\ pc' \in LogprobPcs) =>
        /\ dataset_config' = dataset_config
        /\ \A i \in DOMAIN output_labels :
              /\ i \in DOMAIN output_labels'
              /\ output_labels'[i] = output_labels[i]

\* C15: the label an example gets is one that its own ranked tokens and the
\* dataset configuration give when resolved on their own, whatever examples
\* and calls came before; during a call the configuration is not changed
\* and the labels of the earlier examples are not touched.
C15_StatelessAcrossExamples ==
    /\ [](LabelAppended => LastLabel \in ExampleLabels(dataset_config, sample, 1))
    /\ [][LogprobStepFrame]_vars

\* The second example of a batch fell back to the first candidate although
\* the first example had been resolved to another label.
C15_Witness ==
    /\ LabelAppended
    /\ Len(output_labels) = 2
    /\ sample_len > 0
    /\ log # <<>>
    /\ output_labels[1] # output_labels[2]

(***************************************************************************)
(* Properties of the token loop of get_closest_logprobs_labels.            *)
(***************************************************************************)

\* A ranked token of the current step is about to be examined.
AtToken == pc = "lp_token" /\ label_idx < Len(generated_labels)

\* The classes one of whose candidate strings, the localized or the English
\* label, starts with the probe when both are compared in lower case.
CaseInsensitiveMatches(cfg, probe) ==
    {i \in DOMAIN cfg.id2label :
        \/ startswith(lower(LocalizedLabelOf(cfg, i)), lower(probe))
        \/ startswith(lower(cfg.id2label[i]), lower(probe))}

\* The strings a class can be returned as: its localized label, as written
\* or in lower case.
LabelsOfClasses(cfg, classes) ==
    {LocalizedLabelOf(cfg, i) : i \in classes}
        \cup {lower(LocalizedLabelOf(cfg, i)) : i \in classes}

C16_AmbiguousAtLaterStep ==
    /\ AtToken
    /\ step_idx >= 1
    /\ Cardinality(MatchedClasses(dataset_config, CurrentProbe)) > 1

\* C16: when, at a generation step other than the first, the probe is a
\* prefix of candidates of more than one class, the step that examines it
\* selects one of the matching candidates and logs the warning.
C16_LaterStepAmbiguityResolved ==
    [][C16_AmbiguousAtLaterStep =>
          /\ output_label' \in LabelsOfClasses(dataset_config,
                                   MatchedClasses(dataset_config, CurrentProbe))
          /\ log' = Append(log, "warning_multiple_candidates")]_vars

\* The first candidate, in the order of candidate_labels, that starts with
\* the probe, as the label it stands for.
FirstMatchingCandidate(cfg, probe) ==
    LET candidates == candidate_labels(cfg)
        matching == {j \in DOMAIN candidates : startswith(candidates[j], probe)}
        first == CHOOSE j \in matching : \A k \in matching : j <= k
    IN  dict_get(english2local(cfg), candidates[first])

C17_PicksAmongSeveral ==
    /\ AtToken
    /\ label_idx >= 1
    /\ Cardinality(CurrentCandidates) > 1

\* C17: when one label is picked among several candidates matching a probe,
\* it is the first matching candidate in the order of the candidate list
\* (localized labels in id2label order, then English labels).
C17_PicksFirstInUniverseOrder ==
    [][C17_PicksAmongSeveral =>
          output_label' = FirstMatchingCandidate(dataset_config, CurrentProbe)]_vars

C18_NoCandidate ==
    /\ AtToken
    /\ CaseInsensitiveMatches(dataset_config, CurrentProbe) = {}

\* The step that examines a probe matching nothing only advances to the next
\* ranked token of the same generation step.
C18_NextTokenTried ==
    C18_NoCandidate =>
        /\ pc' = "lp_token"
        /\ label_idx' = label_idx + 1
        /\ step_idx' = step_idx
        /\ sample_idx' = sample_idx
        /\ generated_labels' = generated_labels
        /\ previously_generated_labels' = previously_generated_labels
        /\ output_label' = output_label
        /\ output_labels' = output_labels
        /\ log' = log

\* The next generation step is entered only when every ranked token of the
\* current step has been examined and none has selected a label.
C18_NextStepAfterAllTokens ==
    (pc \in LogprobPcs /\ pc' \in LogprobPcs /\ step_idx' = step_idx + 1) =>
        /\ label_idx = Len(generated_labels)
        /\ output_label = None

\* C18: a probe that is a prefix of no candidate neither resolves nor ends
\* the example: the next lower-ranked token of the same step is tried, and
\* the next generation step is examined only after every ranked token of the
\* current step has been tried without a resolution.
C18_NoMatchTriesNextToken ==
    [][C18_NextTokenTried /\ C18_NextStepAfterAllTokens]_vars

\* At the second generation step, reached after no token of the first step
\* matched, a lower-ranked token selected a label after the top-ranked one
\* matched nothing.
C18_Witness ==
    /\ pc = "lp_step_end"
    /\ step_idx = 1
    /\ sample[1] # <<>>
    /\ \A i \in DOMAIN sample[1] :
          CaseInsensitiveMatches(dataset_config, clean_label(sample[1][i])) = {}
    /\ label_idx >= 1
    /\ output_label # None
    /\ CaseInsensitiveMatches(dataset_config, generated_labels[1]) = {}

\* C19: prefix matching is case-insensitive over the whole candidate list:
\* whenever the probe is a prefix, in lower case, of the localized or of the
\* English label of a class, the candidates found for the probe include a
\* label of that class.
C19_CaseInsensitiveMatching ==
    AtToken =>
        \A i \in CaseInsensitiveMatches(dataset_config, CurrentProbe) :
            LabelsOfClasses(dataset_config, {i}) \cap CurrentCandidates # {}

(***************************************************************************)
(* Token cleaning.                                                         *)
(***************************************************************************)

\* The token in lower case, from its first to its last character of the
\* label alphabet; empty when it has no such character.
CleanedToken(token) ==
    LET lowered == lower(token)
        inside == {i \in DOMAIN lowered : lowered[i] \in LabelAlphabet}
    IN  IF inside = {} THEN <<>>
        ELSE SubSeq(lowered,
                    CHOOSE i \in inside : \A j \in inside : i <= j,
                    CHOOSE i \in inside : \A j \in inside : j <= i)

IsJunkToken(token) == CleanedToken(token) = <<>>

IsKeptToken(token) == ~IsJunkToken(token)

\* The steps of an example without the tokens made only of characters
\* outside the label alphabet.
WithoutJunk(steps) == [k \in DOMAIN steps |-> SelectSeq(steps[k], IsKeptToken)]

\* The ranked tokens of the generation step being examined.
CurrentStepTokens == sample[Len(sample)]

\* C20: before matching, every ranked token of a step is lower-cased and
\* stripped of its leading and trailing characters outside the label
\* alphabet, inner characters are kept, and emptied tokens are dropped; a
\* token made only of such characters never forms a probe and the label of
\* the example is one it gets without these tokens.
C20_TokensCleanedBeforeMatching ==
    /\ pc \in {"lp_token", "lp_step_end"} =>
          /\ LET kept == SelectSeq(CurrentStepTokens, IsKeptToken)
             IN  /\ Len(generated_labels) = Len(kept)
                 /\ \A i \in DOMAIN kept : generated_labels[i] = CleanedToken(kept[i])
          /\ AtToken =>
                 \E i \in DOMAIN CurrentStepTokens :
                     /\ IsKeptToken(CurrentStepTokens[i])
                     /\ CurrentProbe = join(previously_generated_labels)
                                          \o CleanedToken(CurrentStepTokens[i])
    /\ LabelAppended =>
          LastLabel \in ExampleLabels(dataset_config, WithoutJunk(sample), 1)

\* The top-ranked token of the step was made only of characters outside the
\* alphabet, and a label was selected from the second-ranked token, which
\* lost leading and trailing characters.
C20_Witness ==
    /\ pc = "lp_step_end"
    /\ output_label # None
    /\ Len(CurrentStepTokens) = 2
    /\ IsJunkToken(CurrentStepTokens[1])
    /\ CleanedToken(CurrentStepTokens[2]) # lower(CurrentStepTokens[2])
    /\ generated_labels = <<CleanedToken(CurrentStepTokens[2])>>

(***************************************************************************)
(* The first-candidate fallback.                                           *)
(***************************************************************************)

\* The step loop of the example ends without a selected label: the for-else
\* clause runs and the example gets its label from it.
FallbackTaken == pc = "lp_step" /\ pc' = "lp_sample"

ExpectedAnswer(text) ==
    LET paragraph == split(text, <<"\n", "\n">>)[pred_idx(dataset_config) + 1]
        line == last(split(paragraph, <<"\n">>))
    IN  strip(last(split(line, <<":">>)))

\* C22: for every decoded text that has a paragraph at the expected index
\* (num_few_shot_examples + 1, plus one with an instruction infix), the
\* extraction returns that paragraph reduced to its last line, then to the
\* part after the last ":", trimmed of surrounding whitespace.
C22_ExpectedSegmentExtracted ==
    pc = "swe_loop" =>
        \A i \in DOMAIN generated_sequences :
            ~SegmentMissing(DecodedText(i)) =>
                raw_predictions[i] = ExpectedAnswer(DecodedText(i))

\* C27: the raw prediction of an example depends only on the example's own
\* generated sequence: it is what the extraction returns for that sequence
\* alone.
C27_IndependentOfBatch ==
    pc = "swe_loop" =>
        \A i \in DOMAIN generated_sequences :
            raw_predictions[i] =
                extract_raw_predictions(<<generated_sequences[i]>>, dataset_config)[1]

(***************************************************************************)
(* The predictions taken from the model outputs.                           *)
(***************************************************************************)

\* The metric functions have taken the predictions from the model outputs
\* and have not yet normalised them.
PredictionsTaken == pc \in {"cm_nan_check", "scm_normalise"}

\* k is the 0-based index of the first maximal score of the row.
IsFirstMaximalScore(row, k) ==
    /\ k + 1 \in DOMAIN row
    /\ \A j \in DOMAIN row : FloatRank[row[j]] <= FloatRank[row[k + 1]]
    /\ \A j \in 1..k : FloatRank[row[j]] < FloatRank[row[k + 1]]

RowHasNaN(row) == \E j \in DOMAIN row : row[j] = "nan"

\* C23: when the model outputs are floating-point class-score vectors, each
\* prediction is the index of the maximal score over the class axis, the
\* lowest one on ties; otherwise the predictions are the model outputs.
C23_ArgmaxOfFloatOutputs ==
    PredictionsTaken =>
        IF model_outputs.dtype = "float"
        THEN /\ predictions.dtype = "int"
             /\ Len(predictions.data) = Len(model_outputs.data)
             /\ \A i \in DOMAIN model_outputs.data :
                   ~RowHasNaN(model_outputs.data[i]) =>
                       IsFirstMaximalScore(model_outputs.data[i], predictions.data[i])
        ELSE predictions = model_outputs

\* A score vector whose maximal score occurs twice was reduced to the lower
\* of the two indices, which is not the first class.
C23_Witness ==
    /\ pc = "cm_nan_check"
    /\ model_outputs.dtype = "float"
    /\ \E i \in DOMAIN model_outputs.data :
          /\ model_outputs.data[i] = <<"0.2", "0.8", "0.8">>
          /\ predictions.data[i] = 1

\* The cleaned tokens of step k of the example.
StepTokens(k) == clean_generated_labels(sample[k])

\* The probe formed for the r-th cleaned token of step k: the token, after
\* the top-ranked token of the step when that one was stored as a prefix.
ProbeOfToken(k, r) ==
    LET tokens == StepTokens(k)
        stored == r > 1 /\ Cardinality(candidate_output_labels(dataset_config, tokens[1])) > 1
    IN  (IF stored THEN tokens[1] ELSE <<>>) \o tokens[r]

\* The label of the example is appended after a step selected one.
SelectedLabelAppended == pc = "lp_step_end" /\ pc' = "lp_sample"

\* C24 as stated: the first-candidate fallback is taken only when no probe
\* formed from the example's tokens is a prefix of a candidate.
C24_FallbackOnlyWithoutMatch ==
    [][FallbackTaken =>
          \A k \in DOMAIN sample :
              \A r \in DOMAIN StepTokens(k) :
                  candidate_output_labels(dataset_config, ProbeOfToken(k, r)) = {}]_vars

\* The fallback is taken exactly for examples all of whose probes match no
\* candidate or are a step's top-ranked token matching several candidates.
C24_FallbackWithoutSelection ==
    FallbackTaken =>
        \A k \in DOMAIN sample :
            \A r \in DOMAIN StepTokens(k) :
                LET matching == candidate_output_labels(dataset_config, ProbeOfToken(k, r))
                IN  matching = {} \/ (r = 1 /\ Cardinality(matching) > 1)

\* A label appended after a selection is the label of a candidate matched by
\* a probe of the step that selected it.
C24_SelectedLabelMatched ==
    SelectedLabelAppended =>
        \E r \in DOMAIN StepTokens(Len(sample)) :
            \E c \in candidate_output_labels(dataset_config,
                                              ProbeOfToken(Len(sample), r)) :
                output_labels' =
                    Append(output_labels, dict_get(english2local(dataset_config), c))

\* C24 (amended): the fallback is taken exactly when no step selected a
\* label, that is when every probe of the example matches no candidate or
\* is a step's top-ranked token matching several candidates; otherwise the
\* label returned is the label of a candidate matched by a probe of the
\* example.
C24_FallbackOnlyWithoutSelection ==
    [][C24_FallbackWithoutSelection /\ C24_SelectedLabelMatched]_vars

\* The example got the fallback label although its only token is a prefix
\* of candidates.
C24_Witness ==
    /\ LabelAppended
    /\ log = <<"debug_no_candidate_label">>
    /\ Len(sample) = 1
    /\ Len(StepTokens(1)) = 1
    /\ Cardinality(candidate_output_labels(dataset_config, StepTokens(1)[1])) > 1

(***************************************************************************)
(* The end of the token loop.                                              *)
(***************************************************************************)

\* C25: within one generation step, once a label has been selected, by a
\* unique match or by the pick among several matches, no lower-ranked token
\* of the step is examined and the selected label is not replaced.
C25_SelectionEndsTokenLoop ==
    [][(pc = "lp_token" /\ output_label # None) =>
          /\ label_idx >= Len(generated_labels)
          /\ output_label' = output_label
          /\ log' = log]_vars

(***************************************************************************)
(* The resolvers' labels as predictions of compute_metrics.                *)
(***************************************************************************)

\* The lower-cased label is a key of the inverse prompt-label mapping, whose
\* keys are the localized labels, and so leads to the id of a class.
AcceptedAsPrediction(cfg, label) ==
    \E i \in DOMAIN cfg.id2label : LocalizedLabelOf(cfg, i) = lower(label)

\* C26: every label returned by get_closest_logprobs_labels or by
\* get_closest_word_edit_labels is accepted by compute_metrics as a
\* prediction: in lower case it is found in the inverse prompt-label mapping.
C26_ReturnedLabelsAccepted ==
    /\ pc = "lp_returned" =>
          \A i \in DOMAIN output_labels :
              AcceptedAsPrediction(dataset_config, output_labels[i])
    /\ pc = "we_returned" =>
          \A i \in DOMAIN new_predicted_labels :
              AcceptedAsPrediction(dataset_config, new_predicted_labels[i])

(***************************************************************************)
(* The batch size of _generate_single_iteration.                           *)
(***************************************************************************)

BatchSizePcs == {"bs_loop", "bs_found", "bs_stored", "bs_raised"}

\* The configured batch size of the running call.
ConfiguredBatchSize == batch_sizes[1]

\* k is floor(log2(b)).
IsFloorLog2(b, k) == pow2(k) <= b /\ b < pow2(k + 1)

\* The candidates are b // 2^n for n = 0..floor(log2 b), in this order.
CandidatesAreHalvings ==
    /\ batch_sizes # <<>>
    /\ IsFloorLog2(ConfiguredBatchSize, Len(batch_sizes) - 1)
    /\ \A n \in DOMAIN batch_sizes :
          batch_sizes[n] = ConfiguredBatchSize \div pow2(n - 1)
    /\ \A n \in DOMAIN batch_sizes :
          n > 1 => batch_sizes[n] < batch_sizes[n - 1]
    /\ batch_sizes[Len(batch_sizes)] = 1

\* The candidates are tried in the order of the list, each after an
\* out-of-memory failure of the one before.
TriedInOrder ==
    /\ Len(dummy_outcomes) <= Len(batch_sizes)
    /\ \A j \in DOMAIN dummy_outcomes :
          j < Len(dummy_outcomes) => dummy_outcomes[j] = "oom"
    /\ dummy_outcomes # <<>> => batch_size = batch_sizes[Len(dummy_outcomes)]

\* Every candidate, 1 included, failed with an out-of-memory error.
AllOutOfMemory ==
    /\ Len(dummy_outcomes) = Len(batch_sizes)
    /\ \A j \in DOMAIN dummy_outcomes : dummy_outcomes[j] = "oom"

\* C28: for a configured batch size b >= 1 the candidates are b // 2^n for
\* n = 0..floor(log2 b), tried in decreasing order and ending with 1; the
\* batch size used and stored back is the largest candidate whose dummy
\* generation succeeds; the out-of-memory InvalidBenchmark is raised exactly
\* when every candidate failed with an out-of-memory error.
C28_LargestFittingBatchSize ==
    pc \in BatchSizePcs =>
        /\ CandidatesAreHalvings
        /\ TriedInOrder
        /\ pc = "bs_stored" =>
              /\ dummy_outcomes[Len(dummy_outcomes)] = "ok"
              /\ benchmark_batch_size = batch_sizes[Len(dummy_outcomes)]
              /\ \A j \in DOMAIN batch_sizes :
                    batch_sizes[j] > benchmark_batch_size => dummy_outcomes[j] = "oom"
        /\ pc \in {"bs_stored", "bs_raised"} =>
              ((pc = "bs_raised" /\ exception = GpuOutOfMemory) <=> AllOutOfMemory)

\* With a configured batch size that is not a power of two, the third
\* candidate fitted after two out-of-memory failures and was stored.
C28_Witness ==
    /\ pc = "bs_stored"
    /\ batch_sizes = <<6, 3, 1>>
    /\ dummy_outcomes = <<"oom", "oom", "ok">>
    /\ benchmark_batch_size = 1

----------------------------------------------------------------------------
(* The attempts of a finetuning run *)

\* The call of _finetune_single_iteration made last.
LastAttempt == attempts[Len(attempts)]

\* _finetune_single_iteration has just returned to _finetune.
SingleIterationReturned == pc = "ft_check"

\* The keys of the score dictionary of an iteration.
ScoreKeys == {"test"} \cup (IF evaluate_train THEN {"train"} ELSE {})

FinetunePcs ==
    TryBlockPcs \cup {"ft_for", "ft_while", "ft_check", "ft_returned", "ft_raised"}

\* The attempt failed: _finetune_single_iteration returned an exception.
Failed(attempt) == attempt.outcome \in CaughtExceptions

\* The attempt succeeded: _finetune_single_iteration returned its scores.
Succeeded(attempt) == attempt.outcome = "scores"

\* The test scores of the iterations completed so far, one entry for each, in
\* iteration order.
TestScoresOfCompletedIterations ==
    /\ Len(finetune_scores.test) = Cardinality({j \in 1..Len(attempts) :
           /\ Succeeded(attempts[j])
           /\ ~(j = Len(attempts) /\ SingleIterationReturned)})
    /\ \A k \in 1..Len(finetune_scores.test) :
           finetune_scores.test[k] = evaluate_dataset(k - 1, "test")

\* What follows an attempt that is not the last one.
NextAttemptFollows(j) ==
    LET attempt == attempts[j]
        following == attempts[j + 1]
    IN  /\ Failed(attempt) \/ Succeeded(attempt)
        /\ Failed(attempt) =>
            /\ following.args.iteration_idx = attempt.args.iteration_idx
            /\ following.args.model = None
            /\ following.args.tokenizer = None
            /\ <<following.args.per_device_train_batch_size,
                  following.args.gradient_accumulation_steps>> = attempt.handled
        /\ Succeeded(attempt) =>
               following.args.iteration_idx = attempt.args.iteration_idx + 1

\* C29: in _finetune each iteration index is retried until
\* _finetune_single_iteration returns a score dictionary: a failed attempt
\* appends no scores and is followed by an attempt for the same index with
\* None for the model and the tokenizer and with the batch size and gradient
\* accumulation handle_error returned; the attempts of index idx + 1 come
\* only after the attempt of idx that succeeded; on return scores['test'] has
\* exactly one entry for each iteration, in iteration order.
C29_RetriedUntilScores ==
    pc \in FinetunePcs =>
        /\ TestScoresOfCompletedIterations
        /\ attempts # <<>> => attempts[1].args.iteration_idx = 0
        /\ \A j \in 1..(Len(attempts) - 1) : NextAttemptFollows(j)
        /\ pc = "ft_returned" =>
            /\ Len(finetune_scores.test) = num_iterations
            /\ \A k \in 0..(num_iterations - 1) :
                   Cardinality({j \in 1..Len(attempts) :
                       /\ attempts[j].args.iteration_idx = k
                       /\ Succeeded(attempts[j])}) = 1

\* A run of two iterations returns after the first attempt, made with the
\* model given to _finetune, failed and was retried with a smaller batch size.
C29_Witness ==
    /\ pc = "ft_returned"
    /\ num_iterations = 2
    /\ Len(attempts) = 3
    /\ Failed(attempts[1])
    /\ attempts[1].args.model # None
    /\ attempts[2].args.per_device_train_batch_size
           < attempts[1].args.per_device_train_batch_size

====
